---- MODULE Spec2Model ----
(***************************************************************************)
(* A model of dryad: the intrusive node link protocol (node.hpp), the      *)
(* arena (arena.hpp), tree ownership and traversal (tree.hpp), kind        *)
(* dispatch (node.hpp, abstract_node.hpp), the open-addressing hash table  *)
(* (_detail/hash_table.hpp) with its owners node_map (node_map.hpp) and    *)
(* hash_forest (hash_forest.hpp).                                          *)
(*                                                                         *)
(* Pointers are integers; nullptr is 0. A node's _ptr word is kept as the  *)
(* integer the code stores: address + 2 * color + parent bit.              *)
(***************************************************************************)
EXTENDS Integers, Sequences, FiniteSets, TLC

VARIABLES
    arena,      \* tree::_arena / hash_forest::_arena
    mem,        \* the node objects constructed in the arena, by address
    root,       \* tree::_root
    kids,       \* history: each container's children as the calls define them
    erased,     \* history: the node the last erase_child_after call returned
    contract,   \* whether the build checks preconditions, and whether one failed
    set_roots,  \* history: the nodes tree::set_root was called with, and the last
    visit,      \* visit_node: its inputs and the callbacks it invoked
    map,        \* node_map: its hash_table, _values, and the abstract map
    forest,     \* hash_forest: _roots and the history of build calls
    heap,       \* history: the arena's allocate calls and the marker taken
    interner,   \* symbol_interner: _buffer, _map and the history of intern calls
    symtab,     \* symbol_table: its hash_table, _decls, and the bindings made
    walk,       \* visit_tree: its callbacks and the callbacks it invoked
    rootlist,   \* forest: its list of roots and the roots inserted, in order
    typed,      \* the optional_node and single_node objects among the nodes
    wide,       \* a hash_table's capacity at the width of std::size_t, and the request made
    painted,    \* history: the color each node was given by its last set_color call
    resource    \* the memory resource: the blocks allocated and not yet deallocated

vars ==
    <<arena, mem, root, kids, set_roots, contract, erased, visit, map, forest, heap, interner, symtab,
      walk, rootlist, typed, wide, painted, resource>>

\* ---------------------------------------------------------------- bounds

\* nodes a tree creates
MaxNodes == 4

\* allocate calls on an arena between two clear calls, and blocks an arena
\* requests
MaxAllocs == 3
MaxBlocks == 3

\* callbacks handed to one visit_node call
MaxCallbacks == 3

\* callbacks handed to one visit_tree call
MaxTreeCallbacks == 3

\* keys with table slots of their own that a node_map may hold at the start
NumFill == 29

\* entries a node_map may count beyond those it holds at the start, and
\* entries a symbol_table may count
MaxLive == 3

\* roots a hash_forest stores
MaxRoots == 2

\* leaf data 1..MaxData, and children per container, of the subtrees built
MaxData == 2
MaxChildren == 2

\* ------------------------------------------------------------- constants

nullptr == 0
sizeof_ptr == 8
block_size == 16 * 1024 - sizeof_ptr
sizeof_block == sizeof_ptr + block_size
sizeof_node == 24
alignof_node == 8

kind_leaf == 0
kind_container == 1

\* sizeof(leaf_node): a node and its int data
sizeof_leaf_node == 32

\* hash_table<Traits, MinTableSize> as node_map and hash_forest instantiate it
MinTableSize == 64

\* default_hash_algorithm: FNV-1a. The tables read hash & (capacity - 1) with
\* capacity <= 2^16 only, and the low 16 bits of the 64-bit state depend on
\* the low 16 bits alone, so these are the bits kept: the low 16 bits of
\* fnv_basis = 14695981039346656037 and of fnv_prime = 1099511628211.
fnv_basis == 8997
fnv_prime == 435
hash_modulus == 2 ^ 16

\* symbol_buffer::min_buffer_size and unique_symbol_map::min_table_size
min_buffer_size == 16 * 1024
min_table_size == 1024

\* IndexType is std::uint16_t: IndexType(-1) is index_modulus - 1.
index_modulus == 2 ^ 16
invalid_index == index_modulus - 1

\* ------------------------------------------------------------ sequences

Range(s) == {s[i] : i \in 1..Len(s)}

NoDup(s) == \A i, j \in 1..Len(s) : s[i] = s[j] => i = j

IndexOf(s, x) == IF x \in Range(s) THEN CHOOSE i \in 1..Len(s) : s[i] = x ELSE 0

\* s with x put directly after position i (i = 0: at the front)
SeqInsertAt(s, i, x) == SubSeq(s, 1, i) \o <<x>> \o SubSeq(s, i + 1, Len(s))

\* s without its element at position i
SeqRemoveAt(s, i) == SubSeq(s, 1, i - 1) \o SubSeq(s, i + 1, Len(s))

Put(f, a, v) == [x \in DOMAIN f \cup {a} |-> IF x = a THEN v ELSE f[x]]

\* ----------------------------------------------------------------- arena

\* The memory resource hands out the k-th block at this address.
BlockBase(k) == k * 2 * sizeof_block

BlockMemory(b) == b + sizeof_ptr

BlockEnd(b) == BlockMemory(b) + block_size

ArenaInit ==
    [cur_block |-> nullptr, cur_pos |-> nullptr, first_block |-> nullptr,
     next |-> <<>>, allocated |-> 0]

\* Fault: no allocation is moved up to its alignment.
align_offset_none(address, alignment) == 0

align_offset(address, alignment) ==
    LET misaligned == address % alignment
    IN  IF misaligned # 0 THEN alignment - misaligned ELSE 0

\* block::allocate: a new block from the resource, appended to a.next
BlockAllocate(a) ==
    [a EXCEPT !.allocated = @ + 1,
              !.next = Put(a.next, BlockBase(a.allocated + 1), nullptr)]

NewBlock(a) == BlockBase(a.allocated + 1)

\* arena::allocate: [arena, result]
ArenaAllocate(a, size, alignment) ==
    LET offset    == align_offset(a.cur_pos, alignment)
        remaining == IF a.cur_block = nullptr THEN 0
                     ELSE BlockEnd(a.cur_block) - a.cur_pos
        moved ==
            IF offset + size > remaining
            THEN IF a.cur_block = nullptr
                 THEN LET b == BlockAllocate(a)
                      IN  [b EXCEPT !.first_block = NewBlock(a),
                                    !.cur_block = NewBlock(a),
                                    !.cur_pos = BlockMemory(NewBlock(a))]
                 ELSE LET b == IF a.next[a.cur_block] = nullptr
                               THEN [BlockAllocate(a) EXCEPT
                                        !.next[a.cur_block] = NewBlock(a)]
                               ELSE a
                      IN  [b EXCEPT !.cur_block = b.next[a.cur_block],
                                    !.cur_pos = BlockMemory(b.next[a.cur_block])]
            ELSE [a EXCEPT !.cur_pos = @ + offset]
    IN  [arena |-> [moved EXCEPT !.cur_pos = @ + size], result |-> moved.cur_pos]

ArenaTop(a) == [cur_block |-> a.cur_block, cur_pos |-> a.cur_pos]

\* Fault: unwind leaves the arena where it is.
ArenaUnwind_skipped(a, m) == a

\* arena::unwind
ArenaUnwind(a, m) == [a EXCEPT !.cur_block = m.cur_block, !.cur_pos = m.cur_pos]

ArenaClear(a) ==
    IF a.first_block = nullptr THEN a
    ELSE [a EXCEPT !.cur_block = a.first_block,
                   !.cur_pos = BlockMemory(a.first_block)]

\* arena::allocate for each call of calls, in order: [arena, results]
RECURSIVE arena_run(_, _)
arena_run(a, calls) ==
    IF calls = <<>> THEN [arena |-> a, results |-> <<>>]
    ELSE LET r    == ArenaAllocate(a, Head(calls).size, Head(calls).alignment)
             rest == arena_run(r.arena, Tail(calls))
         IN  [arena |-> rest.arena, results |-> <<r.result>> \o rest.results]

\* The arena's history. While no clear or unwind was called (fresh), calls
\* are the allocate calls made since construction and results what they
\* returned; epoch are the allocations made since the last clear or unwind,
\* each with the block that was current when it returned; count is the
\* number of allocate calls since construction or the last clear; marker is
\* the last top() taken, if has_marker.
HeapInit ==
    [fresh |-> TRUE, calls |-> <<>>, results |-> <<>>, epoch |-> <<>>,
     count |-> 0, has_marker |-> FALSE, marker |-> ArenaTop(ArenaInit)]

\* ------------------------------------------------------------------ node

\* node::node, then container_node::container_node for a container
NewNode(kind, is_container, data) ==
    [ptr |-> nullptr, is_container |-> is_container, kind |-> kind,
     user_data32 |-> 0, user_data_ptr |-> nullptr, data |-> data]

next_node(m, n) == m[n].ptr - (m[n].ptr % 8)

next_node_is_parent(m, n) == m[n].ptr % 2 # 0

is_linked_in_tree(m, n) == next_node(m, n) # nullptr

color(m, n) == (m[n].ptr % 8) \div 2

set_color(m, n, c) == [m EXCEPT ![n].ptr = @ - 2 * ((@ % 8) \div 2) + 2 * (c % 4)]

unlink(m, n) == [m EXCEPT ![n].ptr = nullptr]

set_next_sibling(m, n, to) == [m EXCEPT ![n].ptr = to]

set_next_parent(m, n, to) == [m EXCEPT ![n].ptr = to + 1]

copy_next(m, n, from) == [m EXCEPT ![n].ptr = m[from].ptr]

first_child(m, c) == m[c].user_data_ptr

set_first_child(m, c, n) == [m EXCEPT ![c].user_data_ptr = n]

\* How many steps a walk over the links of m may take before it is cut off.
Fuel(m) == 3 * Cardinality(DOMAIN m) + 3

\* The result of a walk that did not end.
Diverged == 0 - 1

RECURSIVE ParentWalk(_, _, _)
ParentWalk(m, cur, fuel) ==
    IF fuel = 0 \/ cur \notin DOMAIN m THEN Diverged
    ELSE IF next_node_is_parent(m, cur) THEN next_node(m, cur)
    ELSE ParentWalk(m, next_node(m, cur), fuel - 1)

\* node::parent
parent(m, n) ==
    IF ~is_linked_in_tree(m, n) THEN nullptr ELSE ParentWalk(m, n, Fuel(m))

\* node::_children_range::empty
children_empty(m, n) ==
    IF m[n].is_container THEN m[n].user_data_ptr = nullptr ELSE TRUE

children_begin(m, n) == IF children_empty(m, n) THEN nullptr ELSE m[n].user_data_ptr

children_end(m, n) == IF children_empty(m, n) THEN nullptr ELSE n

RECURSIVE ChildrenWalk(_, _, _, _)
ChildrenWalk(m, cur, end, fuel) ==
    IF cur = end THEN <<>>
    ELSE IF fuel = 0 \/ cur \notin DOMAIN m THEN <<Diverged>>
    ELSE <<cur>> \o ChildrenWalk(m, next_node(m, cur), end, fuel - 1)

\* node::children, iterated from begin() to end()
children(m, n) == ChildrenWalk(m, children_begin(m, n), children_end(m, n), Fuel(m))

has_children(m, n) == ~children_empty(m, n)

\* Fault: the iterator follows the parent pointer instead of wrapping around
\* to the parent's first child.
sibling_increment_no_wrap(m, cur) == next_node(m, cur)

\* node::_sibling_range::iterator::increment
sibling_increment(m, cur) ==
    IF next_node_is_parent(m, cur)
    THEN children_begin(m, next_node(m, cur))
    ELSE next_node(m, cur)

sibling_is_empty_range(m, n) == ~is_linked_in_tree(m, n) \/ next_node(m, n) = n

RECURSIVE SiblingWalk(_, _, _, _)
SiblingWalk(m, cur, end, fuel) ==
    IF cur = end THEN <<>>
    ELSE IF fuel = 0 \/ cur \notin DOMAIN m THEN <<Diverged>>
    ELSE <<cur>> \o SiblingWalk(m, sibling_increment(m, cur), end, fuel - 1)

\* node::siblings, iterated from begin() (= ++end()) to end() (= the node)
siblings(m, n) ==
    IF sibling_is_empty_range(m, n) THEN <<>>
    ELSE SiblingWalk(m, sibling_increment(m, n), n, Fuel(m))

\* -------------------------------------------------------- container_node

\* Fault: the child takes over pos's next pointer without its parent bit.
insert_child_after_lost_parent(m, this, pos, child) ==
    IF pos = nullptr
    THEN LET linked == IF first_child(m, this) # nullptr
                       THEN set_next_sibling(m, child, first_child(m, this))
                       ELSE set_next_parent(m, child, this)
         IN  set_first_child(linked, this, child)
    ELSE set_next_sibling(set_next_sibling(m, child, next_node(m, pos)), pos, child)

insert_child_after(m, this, pos, child) ==
    IF pos = nullptr
    THEN LET linked == IF first_child(m, this) # nullptr
                       THEN set_next_sibling(m, child, first_child(m, this))
                       ELSE set_next_parent(m, child, this)
         IN  set_first_child(linked, this, child)
    ELSE set_next_sibling(copy_next(m, child, pos), pos, child)

RECURSIVE insert_children_after(_, _, _, _)
insert_children_after(m, this, pos, cs) ==
    IF cs = <<>> THEN m
    ELSE insert_children_after(insert_child_after(m, this, pos, Head(cs)),
                               this, Head(cs), Tail(cs))

\* The child erase_child_after(pos) and replace_child_after(pos, _) act on.
child_after(m, this, pos) ==
    IF pos = nullptr THEN first_child(m, this) ELSE next_node(m, pos)

\* Fault: the erased child keeps its link.
erase_child_after_keeps_link(m, this, pos) ==
    LET child == child_after(m, this, pos)
    IN  IF pos = nullptr
        THEN IF next_node_is_parent(m, child)
             THEN set_first_child(m, this, nullptr)
             ELSE set_first_child(m, this, next_node(m, child))
        ELSE copy_next(m, pos, child)

erase_child_after(m, this, pos) ==
    LET child == child_after(m, this, pos)
    IN  IF pos = nullptr
        THEN unlink(IF next_node_is_parent(m, child)
                    THEN set_first_child(m, this, nullptr)
                    ELSE set_first_child(m, this, next_node(m, child)),
                    child)
        ELSE unlink(copy_next(m, pos, child), child)

replace_child_after(m, this, pos, new_child) ==
    LET old_child == child_after(m, this, pos)
    IN  IF pos = nullptr
        THEN unlink(set_first_child(copy_next(m, new_child, old_child),
                                    this, new_child),
                    old_child)
        ELSE unlink(set_next_sibling(copy_next(m, new_child, old_child),
                                     pos, new_child),
                    old_child)

\* ------------------------------------------------------------------ tree

\* Fault: the root's link to itself is stored as a sibling pointer.
set_root_as_sibling(m, r) == set_next_sibling(m, r, r)

\* tree::set_root: the node memory afterwards
set_root(m, r) == set_next_parent(m, r, r)

\* ---------------------------------------------------------------- forest

\* unlinked_node_list: an empty list
ListInit == [first |-> nullptr, last |-> nullptr]

\* unlinked_node_list::push_back: the node becomes the next sibling of the
\* last one; [m, l], the node memory and the list afterwards
push_back(m, l, n) ==
    IF l.first = nullptr
    THEN [m |-> m, l |-> [first |-> n, last |-> n]]
    ELSE [m |-> set_next_sibling(m, l.last, n), l |-> [l EXCEPT !.last = n]]

\* unlinked_node_list::append
append(m, l, nodes) ==
    IF nodes.first = nullptr THEN [m |-> m, l |-> l]
    ELSE IF l.first = nullptr THEN [m |-> m, l |-> nodes]
    ELSE [m |-> set_next_sibling(m, l.last, nodes.first),
          l |-> [l EXCEPT !.last = nodes.last]]

RECURSIVE ListWalk(_, _, _, _)
ListWalk(m, cur, last, fuel) ==
    IF fuel = 0 \/ cur \notin DOMAIN m THEN <<Diverged>>
    ELSE IF cur = last THEN <<cur>>
    ELSE <<cur>> \o ListWalk(m, next_node(m, cur), last, fuel - 1)

\* forest::roots, iterated from begin() to end()
forest_roots(m, l) ==
    IF l.first = nullptr THEN <<>> ELSE ListWalk(m, l.first, l.last, Fuel(m))

\* Fault: the last root is given a parent pointer to itself, so the roots
\* after the first are cut off the first root's sibling chain.
close_roots_at_last(m, l) == set_next_parent(m, l.last, l.last)

\* forest::insert_root, insert_root_list: _roots.back()->set_next_sibling(_roots.front())
close_roots(m, l) == set_next_sibling(m, l.last, l.first)

\* forest::insert_root: [m, l]
insert_root(m, l, r) ==
    LET p == push_back(m, l, r) IN [m |-> close_roots(p.m, p.l), l |-> p.l]

\* forest::insert_root_list: [m, l]
insert_root_list(m, l, nodes) ==
    LET p == append(m, l, nodes) IN [m |-> close_roots(p.m, p.l), l |-> p.l]

\* -------------------------------------------------------------- traverse

\* Fault: a container without children is left without its exit event.
traverse_increment_no_exit(m, it) ==
    IF it.ev = "enter" /\ has_children(m, it.cur)
    THEN LET first == children_begin(m, it.cur)
         IN  [cur |-> first,
              ev |-> IF m[first].is_container THEN "enter" ELSE "leaf"]
    ELSE IF next_node(m, it.cur) = it.cur
    THEN [cur |-> nullptr, ev |-> "leaf"]
    ELSE [cur |-> next_node(m, it.cur),
          ev |-> IF next_node_is_parent(m, it.cur) THEN "exit"
                 ELSE IF m[next_node(m, it.cur)].is_container THEN "enter"
                 ELSE "leaf"]

\* Fault: following a parent pointer enters the container again.
traverse_increment_reenter(m, it) ==
    IF it.ev = "enter"
    THEN IF has_children(m, it.cur)
         THEN LET first == children_begin(m, it.cur)
              IN  [cur |-> first,
                   ev |-> IF m[first].is_container THEN "enter" ELSE "leaf"]
         ELSE [cur |-> it.cur, ev |-> "exit"]
    ELSE IF next_node(m, it.cur) = it.cur
    THEN [cur |-> nullptr, ev |-> "leaf"]
    ELSE [cur |-> next_node(m, it.cur),
          ev |-> IF m[next_node(m, it.cur)].is_container THEN "enter" ELSE "leaf"]

\* _traverse_range::iterator::increment
traverse_increment(m, it) ==
    IF it.ev = "enter"
    THEN IF has_children(m, it.cur)
         THEN LET first == children_begin(m, it.cur)
              IN  [cur |-> first,
                   ev |-> IF m[first].is_container THEN "enter" ELSE "leaf"]
         ELSE [cur |-> it.cur, ev |-> "exit"]
    ELSE IF next_node(m, it.cur) = it.cur
    THEN [cur |-> nullptr, ev |-> "leaf"]
    ELSE [cur |-> next_node(m, it.cur),
          ev |-> IF next_node_is_parent(m, it.cur) THEN "exit"
                 ELSE IF m[next_node(m, it.cur)].is_container THEN "enter"
                 ELSE "leaf"]

\* _traverse_range::_traverse_range: _begin
traverse_begin(m, n) ==
    [cur |-> n, ev |-> IF m[n].is_container THEN "enter" ELSE "leaf"]

\* _traverse_range::_traverse_range: _end
traverse_end(m, n) ==
    IF m[n].is_container
    THEN traverse_increment(m, [cur |-> n, ev |-> "exit"])
    ELSE traverse_increment(m, traverse_begin(m, n))

RECURSIVE TraverseWalk(_, _, _, _)
TraverseWalk(m, it, end, fuel) ==
    IF it = end THEN <<>>
    ELSE IF fuel = 0 \/ it.cur \notin DOMAIN m THEN <<[cur |-> Diverged, ev |-> "leaf"]>>
    ELSE <<it>> \o TraverseWalk(m, traverse_increment(m, it), end, fuel - 1)

\* traverse(n), iterated from begin() to end()
traverse(m, n) == TraverseWalk(m, traverse_begin(m, n), traverse_end(m, n), Fuel(m))

\* ------------------------------------------------------------ hash_table

\* a & b on unsigned integers
RECURSIVE BitAnd(_, _)
BitAnd(a, b) ==
    IF a = 0 \/ b = 0 THEN 0
    ELSE (a % 2) * (b % 2) + 2 * BitAnd(a \div 2, b \div 2)

\* 64 - __builtin_clzll(n): the number of bits of n
RECURSIVE BitLength(_)
BitLength(n) == IF n = 0 THEN 0 ELSE 1 + BitLength(n \div 2)

\* The all-ones pointer fill_removed writes: uintptr_t(-1).
removed == 0 - 1

\* Traits::is_unoccupied of node_hash_traits and hash_forest_traits
is_unoccupied(v) == v = 0 \/ v = removed

\* symbol_hash_traits: fill_unoccupied writes IndexType(-1), fill_removed
\* writes IndexType(-2)
symbol_unoccupied == index_modulus - 1
symbol_removed == index_modulus - 2

\* symbol_hash_traits::is_unoccupied
symbol_is_unoccupied(idx) == idx >= index_modulus - 2

\* symbol_hash_traits::hash
symbol_hash(entry) == entry

\* symbol_hash_traits::is_equal
symbol_is_equal(entry, value) == entry = value

\* node_hash_traits::hash
node_hash(key) == key \div 8

\* node_hash_traits::is_equal
node_is_equal(entry, key) == entry = key

\* a ^ b on unsigned integers
RECURSIVE BitXor(_, _)
BitXor(a, b) ==
    IF a = 0 THEN b
    ELSE IF b = 0 THEN a
    ELSE (((a % 2) + (b % 2)) % 2) + 2 * BitXor(a \div 2, b \div 2)

\* default_hash_algorithm::hash_bytes
RECURSIVE hash_bytes(_, _)
hash_bytes(h, bytes) ==
    IF bytes = <<>> THEN h
    ELSE hash_bytes((BitXor(h, Head(bytes)) * fnv_prime) % hash_modulus, Tail(bytes))

\* default_hash_algorithm::hash_scalar for a 4-byte scalar (int, node_kind)
hash_scalar(h, v) ==
    hash_bytes(h, <<v % 256, (v \div 256) % 256,
                    (v \div 65536) % 256, (v \div 16777216) % 256>>)

\* node_hasher::hash: the non-tree data of a node
node_hasher_hash(h, m, n) ==
    IF m[n].kind = kind_leaf THEN hash_scalar(h, m[n].data) ELSE h

\* visit_tree(n, hasher_for...): the callbacks take a node only, so each is
\* invoked on the enter and leaf events of traverse(n)
RECURSIVE hash_events(_, _, _)
hash_events(h, m, events) ==
    IF events = <<>> THEN h
    ELSE hash_events(IF Head(events).ev = "exit" \/ Head(events).cur \notin DOMAIN m
                     THEN h
                     ELSE node_hasher_hash(h, m, Head(events).cur),
                     m, Tail(events))

\* node_hasher_base::hash_base, from a fresh default_hash_algorithm to finish()
hash_base(m, n) == hash_events(hash_scalar(fnv_basis, m[n].kind), m, traverse(m, n))

\* node_hasher::is_equal: the non-tree data of two nodes of one kind
node_hasher_is_equal(m, lhs, rhs) ==
    IF m[lhs].kind = kind_leaf THEN m[lhs].data = m[rhs].data ELSE TRUE

\* visit_node_all(lhs, is_equal_for{rhs}...) as is_equal_base uses it: the
\* value the callback of lhs's node type returns
visit_node_all_is_equal(m, lhs, rhs) == node_hasher_is_equal(m, lhs, rhs)

\* Fault: two nodes are equal once their kinds and data are, whatever their
\* children.
is_equal_without_children(m, lhs, rhs) ==
    /\ m[lhs].kind = m[rhs].kind
    /\ visit_node_all_is_equal(m, lhs, rhs)

RECURSIVE is_equal_base(_, _, _)
RECURSIVE is_equal_children(_, _, _)

\* the loop of node_hasher_base::is_equal_base over both child ranges
is_equal_children(m, lhs_cur, rhs_cur) ==
    IF lhs_cur = <<>> \/ rhs_cur = <<>> THEN lhs_cur = <<>> /\ rhs_cur = <<>>
    ELSE IF ~is_equal_base(m, Head(lhs_cur), Head(rhs_cur)) THEN FALSE
    ELSE is_equal_children(m, Tail(lhs_cur), Tail(rhs_cur))

\* node_hasher_base::is_equal_base
is_equal_base(m, lhs, rhs) ==
    IF m[lhs].kind # m[rhs].kind THEN FALSE
    ELSE IF ~visit_node_all_is_equal(m, lhs, rhs) THEN FALSE
    ELSE is_equal_children(m, children(m, lhs), children(m, rhs))

\* hash_forest_traits::hash(hash_forest_key<leaf_node, int>): the kind of
\* leaf_node, then node_hasher::hash(hasher, int)
forest_key_hash(key) == hash_scalar(hash_scalar(fnv_basis, kind_leaf), key)

\* hash_forest_traits::is_equal(entry, hash_forest_key<leaf_node, int>):
\* node_try_cast<leaf_node>(entry), then node_hasher::is_equal(leaf_node, int)
forest_key_is_equal(m, entry, key) ==
    m[entry].kind = kind_leaf /\ m[entry].data = key

\* Traits::hash for the traits tr: node_hash_traits, symbol_hash_traits or
\* hash_forest_traits
traits_hash(tr, key) ==
    IF tr.name = "node" THEN node_hash(key)
    ELSE IF tr.name = "symbol" THEN symbol_hash(key)
    ELSE IF tr.name = "forest_key" THEN forest_key_hash(key)
    ELSE hash_base(tr.mem, key)

\* Traits::is_equal for the traits tr
traits_is_equal(tr, entry, key) ==
    IF tr.name = "node" THEN node_is_equal(entry, key)
    ELSE IF tr.name = "symbol" THEN symbol_is_equal(entry, key)
    ELSE IF tr.name = "forest_key" THEN forest_key_is_equal(tr.mem, entry, key)
    ELSE is_equal_base(tr.mem, entry, key)

\* Traits::is_unoccupied for the traits tr
traits_is_unoccupied(tr, v) ==
    IF tr.name = "symbol" THEN symbol_is_unoccupied(v) ELSE is_unoccupied(v)

\* What Traits::fill_unoccupied and Traits::fill_removed write to a slot
traits_unoccupied(tr) == IF tr.name = "symbol" THEN symbol_unoccupied ELSE nullptr

traits_removed(tr) == IF tr.name = "symbol" THEN symbol_removed ELSE removed

\* hash_table::hash_table
TableInit == [table |-> <<>>, cap |-> 0, size |-> 0]

\* the loop of hash_table::lookup_entry from slot idx on: [idx, valid]
RECURSIVE probe(_, _, _, _, _)
probe(t, key, tr, idx, fuel) ==
    IF fuel = 0 THEN [idx |-> Diverged, valid |-> FALSE]
    ELSE IF traits_is_unoccupied(tr, t.table[idx]) THEN [idx |-> idx, valid |-> FALSE]
    ELSE IF traits_is_equal(tr, t.table[idx], key) THEN [idx |-> idx, valid |-> TRUE]
    ELSE probe(t, key, tr, BitAnd(idx + 1, t.cap - 1), fuel - 1)

\* hash_table::lookup_entry: the entry_handle, as [idx, valid]
lookup_entry(t, key, tr) ==
    IF ~(t.size < t.cap) THEN [idx |-> Diverged, valid |-> FALSE]
    ELSE probe(t, key, tr, BitAnd(traits_hash(tr, key), t.cap - 1), t.cap + 1)

\* hash_table::entry_handle::create
entry_create(t, h, value) ==
    [t EXCEPT !.table[h.idx] = value, !.size = @ + 1]

\* hash_table::entry_handle::remove
entry_remove(t, h, tr) ==
    [t EXCEPT !.table[h.idx] = traits_removed(tr), !.size = @ - 1]

\* hash_table::should_rehash
\* should_rehash that waits until the table is full
should_rehash_full(t) == t.size >= t.cap

should_rehash(t) == t.size >= t.cap \div 2

\* hash_table::to_table_capacity
to_table_capacity(c) ==
    IF c < MinTableSize THEN MinTableSize ELSE 2 ^ BitLength(c - 1)

\* the loop of hash_table::rehash over the old table's slots lo..hi-1, in
\* index order: [t, moves, failed], moves the <<new index, old index>> pairs
\* handed to entry_cb, failed whether create was called on a valid handle
\* (its DRYAD_PRECONDITION; a build without assertions goes on as modelled).
\* The slots of the lower half are done, and their result is a value, before
\* the upper half starts.
RECURSIVE rehash_loop(_, _, _, _, _)
rehash_loop(old, lo, hi, acc, tr) ==
    IF hi <= lo THEN acc
    ELSE IF hi = lo + 1
    THEN IF traits_is_unoccupied(tr, old.table[lo]) THEN acc
         ELSE LET h == lookup_entry(acc.t, old.table[lo], tr)
              IN  [t |-> entry_create(acc.t, h, old.table[lo]),
                   moves |-> Append(acc.moves, <<h.idx, lo>>),
                   failed |-> acc.failed \/ h.valid]
    ELSE LET mid == (lo + hi) \div 2
         IN  CHOOSE r \in {rehash_loop(old, mid, hi, left, tr) :
                             left \in {rehash_loop(old, lo, mid, acc, tr)}} : TRUE

\* hash_table::rehash(resource, new_capacity, traits, entry_cb):
\* [t, moves, failed]
rehash(t, new_capacity, tr) ==
    IF new_capacity <= t.cap THEN [t |-> t, moves |-> <<>>, failed |-> FALSE]
    ELSE LET fresh == [table |-> [i \in 0..new_capacity - 1 |-> traits_unoccupied(tr)],
                       cap |-> new_capacity, size |-> t.size]
         IN  IF t.size > 0
             THEN rehash_loop(t, 0, t.cap,
                              [t |-> [fresh EXCEPT !.size = 0], moves |-> <<>>,
                               failed |-> FALSE], tr)
             ELSE [t |-> fresh, moves |-> <<>>, failed |-> FALSE]

\* ----------------------------------------------------------- hash_forest

\* hash_forest_traits over the node memory m
forest_traits(m) == [name |-> "forest", mem |-> m]

\* hash_forest_traits for a hash_forest_key<leaf_node, int>
forest_key_traits(m) == [name |-> "forest_key", mem |-> m]

\* hash_forest::hash_forest: _roots (the arena is the variable arena).
\* traps: whether the build ends the program when a stored root that is not
\* linked is traversed (the precondition of traverse with assertions, the
\* read of nullptr->_is_container on a platform where it faults), or reads a
\* value there. crashed: whether the program was ended in this way.
ForestRootsInit ==
    [t |-> TableInit, failed |-> FALSE, traps |-> TRUE, crashed |-> FALSE]

\* Whether the table stores a root that is not linked.
stores_unlinked(roots, m) ==
    \E i \in DOMAIN roots.t.table :
        /\ ~is_unoccupied(roots.t.table[i])
        /\ ~is_linked_in_tree(m, roots.t.table[i])

\* The memory as the read of nullptr->_is_container sees it where the read
\* yields a value; the value decides the event of the end iterator and of
\* the iterator after the node alike, so the range is the node in both cases.
null_read(m) == Put(m, nullptr, NewNode(kind_leaf, FALSE, 0))

\* hash_forest::rehash with the result r of hash_table::rehash
forest_rehashed(roots, r) == [roots EXCEPT !.t = r.t, !.failed = @ \/ r.failed]

\* hash_forest::rehash
forest_rehash(roots, n, m) ==
    IF to_table_capacity(n) <= roots.t.cap THEN roots
    ELSE IF roots.t.size > 0 /\ roots.traps /\ stores_unlinked(roots, m)
    THEN [roots EXCEPT !.crashed = TRUE]
    ELSE forest_rehashed(roots,
             rehash(roots.t, to_table_capacity(n),
                    forest_traits(IF roots.t.size > 0 /\ stores_unlinked(roots, m)
                                  THEN null_read(m) ELSE m)))

\* build, lookup_or_create: if (_roots.should_rehash()) rehash(2 * _roots.capacity())
forest_grow(roots, m) ==
    IF should_rehash(roots.t) THEN forest_rehash(roots, 2 * roots.t.cap, m) ELSE roots

\* The subtrees a builder constructs: a leaf with its data, or a container
\* with its children.
Leaf(data) == [kind |-> kind_leaf, data |-> data, children |-> <<>>]

Container(cs) == [kind |-> kind_container, data |-> 0, children |-> cs]

RECURSIVE construct(_, _)
RECURSIVE construct_children(_, _)

\* The builder creates the children of a container in order:
\* [arena, mem, nodes].
construct_children(st, cs) ==
    IF cs = <<>> THEN [arena |-> st.arena, mem |-> st.mem, nodes |-> <<>>]
    ELSE LET first == construct(st, Head(cs))
             rest  == construct_children(first, Tail(cs))
         IN  [rest EXCEPT !.nodes = <<first.node>> \o @]

\* A builder for the subtree s: node_creator::create<leaf_node>(data), or the
\* children and then create<container_node>(children...), whose constructor
\* calls insert_children_after(nullptr, children...): [arena, mem, node].
construct(st, s) ==
    IF s.kind = kind_leaf
    THEN LET a == ArenaAllocate(st.arena, sizeof_leaf_node, alignof_node)
         IN  [arena |-> a.arena,
              mem |-> Put(st.mem, a.result, NewNode(kind_leaf, FALSE, s.data)),
              node |-> a.result]
    ELSE LET cs == construct_children(st, s.children)
             a  == ArenaAllocate(cs.arena, sizeof_node, alignof_node)
         IN  [arena |-> a.arena,
              mem |-> insert_children_after(
                          Put(cs.mem, a.result, NewNode(kind_container, TRUE, 0)),
                          a.result, nullptr, cs.nodes),
              node |-> a.result]

\* hash_forest::build from the entry its lookup_entry returned on: grown the
\* table after the rehash, built the builder's result, linked the memory
\* after node->set_next_parent(node)
build_stored(grown, a, m, built, linked, entry) ==
    IF grown.crashed
    THEN [roots |-> grown, arena |-> a, mem |-> m, result |-> nullptr,
          existing |-> FALSE]
    ELSE IF entry.valid
    THEN [roots |-> grown, arena |-> ArenaUnwind(built.arena, ArenaTop(a)),
          mem |-> linked, result |-> grown.t.table[entry.idx],
          existing |-> TRUE]
    ELSE [roots |-> [grown EXCEPT !.t = entry_create(grown.t, entry, built.node)],
          arena |-> built.arena, mem |-> linked, result |-> built.node,
          existing |-> FALSE]

\* hash_forest::build from node->set_next_parent(node) on
build_linked(grown, a, m, built, linked) ==
    build_stored(grown, a, m, built, linked,
                 lookup_entry(grown.t, built.node, forest_traits(linked)))

\* hash_forest::build from the builder's return on
build_built(grown, a, m, built) ==
    build_linked(grown, a, m, built,
                 set_next_parent(built.mem, built.node, built.node))

\* hash_forest::build with a builder for the subtree s:
\* [roots, arena, mem, result, existing]
hash_forest_build(roots, a, m, s) ==
    build_built(forest_grow(roots, m), a, m, construct([arena |-> a, mem |-> m], s))

\* hash_forest::lookup_or_create from the entry its lookup_entry returned
\* on: made is what node_creator::create<leaf_node>(key) constructs
keyed_stored(grown, a, m, made, entry) ==
    IF grown.crashed
    THEN [roots |-> grown, arena |-> a, mem |-> m, result |-> nullptr,
          existing |-> FALSE]
    ELSE IF entry.valid
    THEN [roots |-> grown, arena |-> a, mem |-> m,
          result |-> grown.t.table[entry.idx], existing |-> TRUE]
    ELSE [roots |-> [grown EXCEPT !.t = entry_create(grown.t, entry, made.node)],
          arena |-> made.arena, mem |-> made.mem, result |-> made.node,
          existing |-> FALSE]

\* hash_forest::lookup_or_create from its rehash on
keyed_grown(grown, a, m, key) ==
    keyed_stored(grown, a, m, construct([arena |-> a, mem |-> m], Leaf(key)),
                 lookup_entry(grown.t, key, forest_key_traits(m)))

\* hash_forest::lookup_or_create<leaf_node>(key):
\* [roots, arena, mem, result, existing]
hash_forest_lookup_or_create(roots, a, m, key) ==
    keyed_grown(forest_grow(roots, m), a, m, key)

\* The node objects of m in memory the arena a has handed out and not
\* unwound; blocks are laid out in the order of the arena's chain.
Live(a, m) == [n \in {x \in DOMAIN m : x < a.cur_pos} |-> m[n]]

\* -------------------------------------------------------------- node_map

node_traits == [name |-> "node"]

\* What a slot of the value array holds without a live Value in it.
destroyed == nullptr

\* node_map::node_map: the table and the value array that shares its index
NodeMapInit == [t |-> TableInit, values |-> <<>>, failed |-> FALSE]

\* The last of the moves, which are made in order, that wrote to new index i.
last_move(moves, i) ==
    CHOOSE j \in DOMAIN moves :
        /\ moves[j][1] = i
        /\ \A l \in DOMAIN moves : moves[l][1] = i => l <= j

\* the entry_cb of node_map::rehash, for every moved entry
move_values(new_values, old_values, moves) ==
    [i \in DOMAIN new_values |->
        IF \E j \in DOMAIN moves : moves[j][1] = i
        THEN old_values[moves[last_move(moves, i)][2]]
        ELSE new_values[i]]

\* node_map::rehash
node_map_rehash(nm, n) ==
    LET new_capacity == to_table_capacity(n)
    IN  IF new_capacity <= nm.t.cap THEN nm
        ELSE LET r == rehash(nm.t, new_capacity, node_traits)
             IN  [t |-> r.t,
                  values |-> move_values([i \in 0..new_capacity - 1 |-> destroyed],
                                         nm.values, r.moves),
                  failed |-> nm.failed \/ r.failed]

\* node_map::lookup_entry, the map after its rehash
node_map_prepare(nm) ==
    IF should_rehash(nm.t) THEN node_map_rehash(nm, 2 * nm.t.cap) ELSE nm

\* node_map::contains
node_map_contains(nm, key) ==
    IF nm.t.size = 0 THEN FALSE ELSE lookup_entry(nm.t, key, node_traits).valid

\* node_map::lookup: the value found, nullptr without one
node_map_lookup(nm, key) ==
    IF nm.t.size = 0 THEN nullptr
    ELSE LET h == lookup_entry(nm.t, key, node_traits)
         IN  IF h.valid THEN nm.values[h.idx] ELSE nullptr

\* node_map::insert: [nm, ret]
node_map_insert(nm, key, value) ==
    LET p == node_map_prepare(nm)
        h == lookup_entry(p.t, key, node_traits)
    IN  IF h.valid THEN [nm |-> p, ret |-> FALSE]
        ELSE [nm |-> [p EXCEPT !.t = entry_create(p.t, h, key),
                               !.values[h.idx] = value],
              ret |-> TRUE]

\* node_map::insert_or_update: [nm, ret]
node_map_insert_or_update(nm, key, value) ==
    LET p == node_map_prepare(nm)
        h == lookup_entry(p.t, key, node_traits)
    IN  IF h.valid
        THEN [nm |-> [p EXCEPT !.values[h.idx] = value], ret |-> FALSE]
        ELSE [nm |-> [p EXCEPT !.t = entry_create(p.t, h, key),
                               !.values[h.idx] = value],
              ret |-> TRUE]

\* node_map::remove: [nm, ret]
node_map_remove(nm, key) ==
    LET p == node_map_prepare(nm)
        h == lookup_entry(p.t, key, node_traits)
    IN  IF ~h.valid THEN [nm |-> p, ret |-> FALSE]
        ELSE [nm |-> [p EXCEPT !.t = entry_remove(p.t, h, node_traits),
                               !.values[h.idx] = destroyed],
              ret |-> TRUE]

\* A call's bool result, or "none" where no call has returned one.
Returned(b) == IF b THEN "true" ELSE "false"

\* The node_map, the finite map M the calls define, the last call's return
\* value and the return value M asks for.
MapInit == [nm |-> NodeMapInit, M |-> <<>>, ret |-> "none", expected |-> "none"]

\* The hash_forest, the history of its build calls as <<subtree, returned
\* root>> pairs, whether the last build found its root stored already, the
\* history of its lookup_or_create calls as <<key, returned root>> pairs, and
\* the root the last lookup_or_create call returned.
ForestInit ==
    [roots |-> ForestRootsInit, hist |-> {}, existing |-> FALSE, keyed |-> {},
     result |-> nullptr]

\* ---------------------------------------------------------- symbol_table

\* The slots of a table that hold an index, in the order of the slots.
RECURSIVE occupied_slots(_)
occupied_slots(slots) ==
    IF slots = {} THEN <<>>
    ELSE LET first == CHOOSE i \in slots : \A j \in slots : i <= j
         IN  <<first>> \o occupied_slots(slots \ {first})

symbol_traits == [name |-> "symbol"]

\* DeclRef(): a declaration pointer that is null
DeclRef == nullptr

\* What a slot of _decls holds before a declaration is written to it.
indeterminate == 0 - 1

\* symbol_table::symbol_table: the table and the declarations that share
\* its index
SymbolTableInit == [t |-> TableInit, decls |-> <<>>, failed |-> FALSE]

\* the entry_cb of symbol_table::rehash, for every moved entry
copy_decls(new_decls, old_decls, moves) ==
    [i \in DOMAIN new_decls |->
        IF \E j \in DOMAIN moves : moves[j][1] = i
        THEN old_decls[moves[last_move(moves, i)][2]]
        ELSE new_decls[i]]

\* symbol_table::rehash
symbol_table_rehash(st, n) ==
    LET new_capacity == to_table_capacity(n)
    IN  IF new_capacity <= st.t.cap THEN st
        ELSE LET r == rehash(st.t, new_capacity, symbol_traits)
             IN  [t |-> r.t,
                  decls |-> copy_decls([i \in 0..new_capacity - 1 |-> indeterminate],
                                       st.decls, r.moves),
                  failed |-> st.failed \/ r.failed]

\* symbol_table::insert_or_shadow: [st, ret]
insert_or_shadow(st, symbol, decl) ==
    LET p == IF should_rehash(st.t) THEN symbol_table_rehash(st, 2 * st.t.cap) ELSE st
        entry == lookup_entry(p.t, symbol, symbol_traits)
    IN  IF entry.valid
        THEN [st |-> [p EXCEPT !.decls[entry.idx] = decl], ret |-> p.decls[entry.idx]]
        ELSE [st |-> [p EXCEPT !.t = entry_create(p.t, entry, symbol),
                               !.decls[entry.idx] = decl],
              ret |-> DeclRef]

\* symbol_table::remove: [st, ret]
symbol_table_remove(st, symbol) ==
    IF st.t.size = 0 THEN [st |-> st, ret |-> DeclRef]
    ELSE LET entry == lookup_entry(st.t, symbol, symbol_traits)
         IN  IF ~entry.valid THEN [st |-> st, ret |-> DeclRef]
             ELSE [st |-> [st EXCEPT !.t = entry_remove(st.t, entry, symbol_traits)],
                   ret |-> st.decls[entry.idx]]

\* symbol_table::lookup
symbol_table_lookup(st, symbol) ==
    IF st.t.size = 0 THEN DeclRef
    ELSE LET entry == lookup_entry(st.t, symbol, symbol_traits)
         IN  IF entry.valid THEN st.decls[entry.idx] ELSE DeclRef

\* hash_table::entry_range from begin() to end(): the slots it stops at
entries(t, tr) ==
    IF t.size = 0 THEN <<>>
    ELSE occupied_slots({i \in DOMAIN t.table : ~traits_is_unoccupied(tr, t.table[i])})

\* symbol_table::begin() to end(): the value_type {symbol, decl} of each
\* entry
symbol_table_iterate(st) ==
    LET slots == entries(st.t, symbol_traits)
    IN  [i \in 1..Len(slots) |->
            [symbol |-> st.t.table[slots[i]], decl |-> st.decls[slots[i]]]]

\* The symbol_table, the bindings B its calls define, and the last call's
\* return value.
SymtabInit == [st |-> SymbolTableInit, B |-> <<>>, ret |-> DeclRef]

\* ------------------------------------------------------- symbol_interner

\* A string is the sequence of its characters; the buffer a const CharT*
\* points to ends with CharT(0).

\* symbol_buffer::symbol_buffer: data are the _size characters written
BufferInit == [data |-> <<>>, capacity |-> 0]

\* symbol_buffer::reserve: the _size characters are copied to the new array
buffer_reserve(b, new_capacity) ==
    IF new_capacity <= b.capacity THEN b
    ELSE [data |-> [i \in 1..Len(b.data) |-> b.data[i]], capacity |-> new_capacity]

\* symbol_buffer::reserve_new_string
reserve_new_string(b, new_string_length) ==
    LET new_size == Len(b.data) + new_string_length + 1
    IN  IF new_size <= b.capacity THEN b
        ELSE buffer_reserve(b, IF new_size * 2 < min_buffer_size
                               THEN min_buffer_size ELSE new_size * 2)

\* symbol_buffer::insert: [buffer, index]
buffer_insert(b, str, length) ==
    [buffer |-> [b EXCEPT !.data = @ \o SubSeq(str, 1, length) \o <<0>>],
     index |-> Len(b.data)]

\* The characters of the null-terminated string at position i of data
\* (positions count from 0), as strcmp and doctest::String read it.
RECURSIVE c_string(_, _)
c_string(data, i) ==
    IF i >= Len(data) \/ data[i + 1] = 0 THEN <<>>
    ELSE <<data[i + 1]>> \o c_string(data, i + 1)

\* symbol_buffer::c_str(index), read as a string
buffer_c_str(b, index) == c_string(b.data, index)

\* unique_symbol_map::unique_symbol_map: table holds the slots whose index
\* is not invalid_index
SymbolMapInit == [table |-> <<>>, cap |-> 0, size |-> 0]

\* _table[i]
table_at(m, i) == IF i \in DOMAIN m.table THEN m.table[i] ELSE invalid_index

\* unique_symbol_map::string_hash
string_hash(str) == hash_bytes(fnv_basis, str)

\* the loop of unique_symbol_map::lookup_entry from entry on: [map, slot].
\* A string that is found returns &_table[table_idx], the slot the probe
\* began at; an empty entry is counted and returned itself.
RECURSIVE symbol_probe(_, _, _, _, _, _)
symbol_probe(m, b, str, table_idx, entry, fuel) ==
    IF fuel = 0 THEN [map |-> m, slot |-> Diverged]
    ELSE IF table_at(m, entry) = invalid_index
    THEN [map |-> [m EXCEPT !.size = @ + 1], slot |-> entry]
    ELSE IF buffer_c_str(b, table_at(m, entry)) = str
    THEN [map |-> m, slot |-> table_idx]
    ELSE symbol_probe(m, b, str, table_idx,
                      IF entry + 1 = m.cap THEN 0 ELSE entry + 1, fuel - 1)

\* unique_symbol_map::lookup_entry(symbols, str): [map, slot]
symbol_lookup_entry(m, b, str) ==
    LET table_idx == BitAnd(string_hash(str), m.cap - 1)
    IN  symbol_probe(m, b, str, table_idx, table_idx, m.cap + 1)

\* unique_symbol_map::should_rehash
symbol_should_rehash(m) == m.size >= m.cap \div 2

\* unique_symbol_map::to_table_capacity
symbol_to_table_capacity(c) ==
    IF c < min_table_size THEN min_table_size ELSE 2 ^ BitLength(c - 1)

\* the loop of unique_symbol_map::rehash over the old table's entries
RECURSIVE symbol_rehash_loop(_, _, _, _)
symbol_rehash_loop(old, slots, m, b) ==
    IF slots = <<>> THEN m
    ELSE LET e == symbol_lookup_entry(m, b, buffer_c_str(b, old.table[Head(slots)]))
         IN  symbol_rehash_loop(old, Tail(slots),
                                [e.map EXCEPT !.table =
                                    Put(@, e.slot, old.table[Head(slots)])],
                                b)

\* unique_symbol_map::rehash(resource, symbols, new_capacity)
symbol_rehash(m, b, n) ==
    LET new_capacity == symbol_to_table_capacity(n)
    IN  IF new_capacity <= m.cap THEN m
        ELSE IF m.size > 0
        THEN symbol_rehash_loop(m, occupied_slots(DOMAIN m.table),
                                [table |-> <<>>, cap |-> new_capacity, size |-> 0], b)
        ELSE [table |-> <<>>, cap |-> new_capacity, size |-> m.size]

\* symbol_interner::reserve: [buffer, map]
interner_reserve(b, m, number_of_symbols, average_symbol_length) ==
    LET reserved == buffer_reserve(b, number_of_symbols * average_symbol_length)
    IN  [buffer |-> reserved, map |-> symbol_rehash(m, reserved, number_of_symbols)]

\* symbol_interner::intern(str, length): [buffer, map, symbol], the symbol
\* as its index
intern(b, m, str, length) ==
    LET grown == IF symbol_should_rehash(m) THEN symbol_rehash(m, b, 2 * m.cap) ELSE m
        e     == symbol_lookup_entry(grown, b, str)
    IN  IF table_at(e.map, e.slot) # invalid_index
        THEN [buffer |-> b, map |-> e.map, symbol |-> table_at(e.map, e.slot)]
        ELSE LET i == buffer_insert(reserve_new_string(b, length), str, length)
             IN  [buffer |-> i.buffer,
                  map |-> [e.map EXCEPT !.table = Put(@, e.slot, i.index)],
                  symbol |-> i.index]

\* symbol_interner::symbol_interner, and the history of its intern calls as
\* <<string, symbol>> pairs
InternerInit == [buffer |-> BufferInit, map |-> SymbolMapInit, hist |-> {}]

\* --------------------------------------------------- the tree's operations

Nodes == DOMAIN mem

Containers == {n \in Nodes : mem[n].is_container}

Unlinked == {n \in Nodes : ~is_linked_in_tree(mem, n)}

RECURSIVE AncestorsWalk(_, _, _)
AncestorsWalk(m, n, fuel) ==
    IF fuel = 0 \/ n \notin DOMAIN m THEN {}
    ELSE IF parent(m, n) \in {nullptr, n, Diverged} THEN {n}
    ELSE {n} \cup AncestorsWalk(m, parent(m, n), fuel - 1)

\* n and the nodes above it
AncestorsOrSelf(m, n) == AncestorsWalk(m, n, Fuel(m))

\* The positions a container's modifiers accept: nullptr or one of its children.
Positions(c) == {nullptr} \cup Range(children(mem, c))

\* No precondition has failed or was passed over: the program goes on.
Running == contract.state = "running"

TreeIdle == UNCHANGED <<visit, map, forest, heap, interner, symtab, walk, rootlist, typed, wide, painted, resource>>

\* tree::create<T>: T is leaf_node or container_node
Create(is_container) ==
    /\ Running
    /\ Cardinality(Nodes) < MaxNodes
    /\ LET a == ArenaAllocate(arena, sizeof_node, alignof_node)
       IN  /\ arena' = a.arena
           /\ mem' = Put(mem, a.result,
                         NewNode(IF is_container THEN kind_container ELSE kind_leaf,
                                 is_container, 0))
           /\ kids' = IF is_container THEN Put(kids, a.result, <<>>) ELSE kids
    /\ UNCHANGED <<root, set_roots, contract, erased>>
    /\ TreeIdle

\* container_node::insert_child_after(pos, child)
InsertChildAfter(c, pos, child) ==
    /\ Running
    /\ c \in Containers
    /\ pos \in Positions(c)
    /\ child \in Unlinked
    /\ child \notin AncestorsOrSelf(mem, c)
    /\ mem' = insert_child_after(mem, c, pos, child)
    /\ kids' = [kids EXCEPT ![c] = SeqInsertAt(@, IndexOf(@, pos), child)]
    /\ UNCHANGED <<arena, root, set_roots, contract, erased>>
    /\ TreeIdle

\* container_node::insert_children_after(pos, x, y)
InsertChildrenAfter(c, pos, x, y) ==
    /\ Running
    /\ c \in Containers
    /\ pos \in Positions(c)
    /\ {x, y} \subseteq Unlinked
    /\ x # y
    /\ {x, y} \cap AncestorsOrSelf(mem, c) = {}
    /\ mem' = insert_children_after(mem, c, pos, <<x, y>>)
    /\ kids' = [kids EXCEPT
                   ![c] = SeqInsertAt(SeqInsertAt(@, IndexOf(@, pos), x),
                                      IndexOf(@, pos) + 1, y)]
    /\ UNCHANGED <<arena, root, set_roots, contract, erased>>
    /\ TreeIdle

\* container_node::erase_child_after(pos)
EraseChildAfter(c, pos) ==
    /\ Running
    /\ c \in Containers
    /\ pos \in Positions(c)
    /\ IF pos = nullptr THEN first_child(mem, c) # nullptr
       ELSE ~next_node_is_parent(mem, pos)
    /\ mem' = erase_child_after(mem, c, pos)
    /\ erased' = child_after(mem, c, pos)
    /\ kids' = [kids EXCEPT ![c] = SeqRemoveAt(@, IndexOf(@, pos) + 1)]
    /\ UNCHANGED <<arena, root, set_roots, contract>>
    /\ TreeIdle

\* container_node::replace_child_after(pos, new_child)
ReplaceChildAfter(c, pos, new_child) ==
    /\ Running
    /\ c \in Containers
    /\ pos \in Positions(c)
    /\ new_child \in Unlinked
    /\ new_child \notin AncestorsOrSelf(mem, c)
    /\ IF pos = nullptr THEN first_child(mem, c) # nullptr
       ELSE ~next_node_is_parent(mem, pos)
    /\ mem' = replace_child_after(mem, c, pos, new_child)
    /\ kids' = [kids EXCEPT ![c] = [@ EXCEPT ![IndexOf(@, pos) + 1] = new_child]]
    /\ UNCHANGED <<arena, root, set_roots, contract, erased>>
    /\ TreeIdle

\* tree::set_root(r)
SetRoot(r) ==
    /\ Running
    /\ r # nullptr
    /\ r \in Unlinked
    /\ root' = r
    /\ mem' = set_root(mem, r)
    /\ set_roots' = [all |-> set_roots.all \cup {r}, last |-> r]
    /\ UNCHANGED <<arena, kids, erased, contract>>
    /\ TreeIdle

\* A build with DRYAD_ENABLE_ASSERT in which no precondition has failed.
\* state: "running"; "failed" once a DRYAD_PRECONDITION ended the program;
\* "unchecked" once a call went on although its precondition did not hold.
ContractInit == [asserts |-> TRUE, state |-> "running", call |-> <<>>]

VisitInit == [state |-> "idle"]

\* forest::forest
RootlistInit == [list |-> ListInit, hist |-> <<>>]

WalkInit == [state |-> "idle"]

\* No optional_node or single_node has been created.
\* ------------------------------- capacities at the width of the code (C34)

\* sizeof(unsigned long long) * CHAR_BIT; std::size_t has the same width
ull_bits == 64

\* An unsigned 64-bit value is the function of its bits, bit i - 1 at index i.
UllZero == [i \in 1..ull_bits |-> 0]

\* 2^e for e < ull_bits
UllPow(e) == [i \in 1..ull_bits |-> IF i = e + 1 THEN 1 ELSE 0]

\* the value of a small natural number
UllOf(n) == [i \in 1..ull_bits |-> IF i > 30 THEN 0 ELSE (n \div (2 ^ (i - 1))) % 2]

\* the number of bits up to the highest one set; 0 for zero
UllLength(v) ==
    IF \A i \in 1..ull_bits : v[i] = 0 THEN 0
    ELSE CHOOSE i \in 1..ull_bits : v[i] = 1 /\ \A j \in (i + 1)..ull_bits : v[j] = 0

\* a < b
UllLess(a, b) ==
    \E i \in 1..ull_bits : a[i] < b[i] /\ \A j \in (i + 1)..ull_bits : a[j] = b[j]

\* v - 1 and v + 1, modulo 2^ull_bits
UllDec(v) ==
    LET low == IF UllLength(v) = 0 THEN ull_bits + 1
               ELSE CHOOSE i \in 1..ull_bits : v[i] = 1 /\ \A j \in 1..(i - 1) : v[j] = 0
    IN  [i \in 1..ull_bits |-> IF i < low THEN 1 ELSE IF i = low THEN 0 ELSE v[i]]
UllInc(v) ==
    LET low == IF \A i \in 1..ull_bits : v[i] = 1 THEN ull_bits + 1
               ELSE CHOOSE i \in 1..ull_bits : v[i] = 0 /\ \A j \in 1..(i - 1) : v[j] = 1
    IN  [i \in 1..ull_bits |-> IF i < low THEN 0 ELSE IF i = low THEN 1 ELSE v[i]]

\* 2 * v, modulo 2^ull_bits
UllDouble(v) == [i \in 1..ull_bits |-> IF i = 1 THEN 0 ELSE v[i - 1]]

\* __builtin_clzll(v), v not zero
clzll(v) == ull_bits - UllLength(v)

\* std::size_t(1) << shift: the values a build can produce. A shift by the
\* width of the type is undefined; the shift instructions of x86-64 and
\* AArch64 take the count modulo 64 and yield 1, a compiler that folds the
\* shift may yield 0.
shift_one(shift) ==
    IF shift < ull_bits THEN {UllPow(shift)} ELSE {UllPow(0), UllZero}

\* hash_table::to_table_capacity on 64-bit values: the set of values returned
to_table_capacity_ull(cap) ==
    IF UllLess(cap, UllOf(MinTableSize)) THEN {UllOf(MinTableSize)}
    ELSE shift_one(ull_bits - clzll(UllDec(cap)))

WideInit ==
    [cap |-> UllZero, asserts |-> TRUE, failed |-> FALSE, request |-> <<>>, result |-> UllZero]

\* the memory resource before any allocation, and its owner still alive
ResourceInit == [outstanding |-> {}, destroyed |-> FALSE]

TypedInit ==
    [optional |-> {}, single |-> {}, array |-> [n \in {} |-> <<>>], list |-> {},
     tuple |-> [n \in {} |-> <<>>],
     last |-> <<>>]

TreeInit ==
    /\ arena = ArenaInit
    /\ mem = <<>>
    /\ root = nullptr
    /\ kids = <<>>
    /\ set_roots = [all |-> {}, last |-> nullptr]
    /\ erased = nullptr
    /\ contract = ContractInit

Init ==
    /\ TreeInit
    /\ visit = VisitInit
    /\ map = MapInit
    /\ forest = ForestInit
    /\ heap = HeapInit
    /\ interner = InternerInit
    /\ symtab = SymtabInit
    /\ walk = WalkInit
    /\ rootlist = RootlistInit
    /\ typed = TypedInit
    /\ wide = WideInit
    /\ painted = <<>>
    /\ resource = ResourceInit

Next ==
    \/ \E is_container \in BOOLEAN : Create(is_container)
    \/ \E c \in Containers : \E pos \in Positions(c) : \E child \in Unlinked :
          InsertChildAfter(c, pos, child)
    \/ \E c \in Containers : \E pos \in Positions(c) : \E x, y \in Unlinked :
          InsertChildrenAfter(c, pos, x, y)
    \/ \E c \in Containers : \E pos \in Positions(c) : EraseChildAfter(c, pos)
    \/ \E c \in Containers : \E pos \in Positions(c) : \E n \in Unlinked :
          ReplaceChildAfter(c, pos, n)
    \/ \E r \in Unlinked : SetRoot(r)

\* The tree: create, the container modifiers and set_root, in any order.
Spec == Init /\ [][Next]_vars

\* ------------------------------------------------- link round-trip (C1)

RECURSIVE ConcatAll(_)
ConcatAll(ss) == IF ss = <<>> THEN <<>> ELSE Head(ss) \o ConcatAll(Tail(ss))

\* The event sequence the claim defines for the subtree of n.
RECURSIVE T(_, _, _)
T(m, n, fuel) ==
    IF fuel = 0 \/ n \notin DOMAIN m THEN <<[cur |-> Diverged, ev |-> "exit"]>>
    ELSE IF ~m[n].is_container THEN <<[cur |-> n, ev |-> "leaf"]>>
    ELSE LET ch == children(m, n)
         IN  <<[cur |-> n, ev |-> "enter"]>>
             \o ConcatAll([i \in 1..Len(ch) |-> T(m, ch[i], fuel - 1)])
             \o <<[cur |-> n, ev |-> "exit"]>>

\* n and its descendants, by the history of the container calls.
RECURSIVE Subtree(_, _)
Subtree(n, fuel) ==
    IF fuel = 0 \/ n \notin DOMAIN kids THEN {n}
    ELSE {n} \cup UNION {Subtree(x, fuel - 1) : x \in Range(kids[n])}

EventNodes(evs, ev) == {evs[i].cur : i \in {j \in 1..Len(evs) : evs[j].ev = ev}}

EventCount(evs, ev) == Cardinality({j \in 1..Len(evs) : evs[j].ev = ev})

C3_SentinelRoot ==
    /\ \A r \in set_roots.all :
          /\ is_linked_in_tree(mem, r)
          /\ parent(mem, r) = r
          /\ siblings(mem, r) = <<>>
    /\ root = set_roots.last

\* A root with a child container that has a child of its own.
C3_Witness ==
    /\ root \in Containers
    /\ root \in set_roots.all
    /\ \E c \in Range(kids[root]) : c \in Containers /\ kids[c] # <<>>

\* ------------------------------------------------- unique sentinel (C27)

\* The nodes whose link is a parent pointer to themselves.
SelfParents == {n \in Nodes : next_node_is_parent(mem, n) /\ next_node(mem, n) = n}

\* C27: in every state reachable by create, set_root (possibly more than
\* once), child insertion and removal, at most one node of the tree has a
\* link that is a parent pointer to itself, and that node is tree.root().
C27_UniqueSentinel ==
    /\ Cardinality(SelfParents) <= 1
    /\ \A n \in SelfParents : n = root

\* ------------------------------------------------- erase_child_after (C28)

\* What one erase_child_after(pos) call on container c leaves behind.
ErasedOne(c, pos) ==
    LET before == children(mem, c)
        child == child_after(mem, c, pos)
        at == IF pos = nullptr THEN 1 ELSE IndexOf(before, pos) + 1
        after == children(mem', c)
    IN  /\ erased' = child
        /\ child = before[at]
        /\ ~is_linked_in_tree(mem', child)
        /\ after = SeqRemoveAt(before, at)
        /\ \A x \in Range(after) : parent(mem', x) = c
        /\ after # <<>> =>
              /\ next_node_is_parent(mem', after[Len(after)])
              /\ next_node(mem', after[Len(after)]) = c
        /\ Len(before) = 1 => ~has_children(mem', c) /\ first_child(mem', c) = nullptr
        /\ {n \in Nodes : is_linked_in_tree(mem, n)}
             = {n \in Nodes : is_linked_in_tree(mem', n)} \cup {child}
        /\ \A x \in Nodes \ {c, pos, child} : mem'[x] = mem[x]

\* C28: erase_child_after(pos) detaches exactly one child, the first one
\* for a null pos and the one after pos otherwise, and returns it with a
\* null link; the remaining children keep their order and their parent,
\* the last of them links back to the container with a parent pointer, and
\* erasing the only child leaves the container without children.
C28_EraseDetachesOne ==
    [][\A c \in Containers : \A pos \in Positions(c) :
          EraseChildAfter(c, pos) => ErasedOne(c, pos)]_vars

\* A child was erased and is unlinked while a container has two children
\* left.
C28_Witness ==
    /\ erased # nullptr
    /\ ~is_linked_in_tree(mem, erased)
    /\ \E c \in Containers :
          /\ Len(children(mem, c)) = 2
          /\ children(mem, c) = kids[c]

\* ------------------------------------------------- sibling cycle (C4)

\* The other children of c in cyclic order, starting after x.
Rotation(ch, x) ==
    SubSeq(ch, IndexOf(ch, x) + 1, Len(ch)) \o SubSeq(ch, 1, IndexOf(ch, x) - 1)

Kinds == {0, 1, 2}

\* The node types a callback can take: basic_node<K> for each kind,
\* abstract_node<Base, 0, 2>, abstract_node_range<Base, 1, 2> and node.
BasicType(k) == [tag |-> "basic", kinds |-> {k}, first |-> k, last |-> k]

SetType == [tag |-> "abstract", kinds |-> {0, 2}, first |-> 0, last |-> 2]

RangeType == [tag |-> "range", kinds |-> {}, first |-> 1, last |-> 2]

NodeType == [tag |-> "node", kinds |-> {}, first |-> 0, last |-> 0]

Types == {BasicType(k) : k \in Kinds} \cup {SetType, RangeType, NodeType}

\* T::type_is_abstract
type_is_abstract(t) == t.tag # "basic"

\* T::type_matches_kind of node, basic_node, abstract_node, abstract_node_range
type_matches_kind(t, kind) ==
    CASE t.tag = "node" -> TRUE
      [] t.tag = "basic" -> kind = t.first
      [] t.tag = "abstract" -> \E k \in t.kinds : k = kind
      [] t.tag = "range" -> t.first <= kind /\ kind <= t.last

\* Fault: the fold over the callbacks does not stop at the first match.
RECURSIVE visit_fold_all_matches(_, _, _)
visit_fold_all_matches(kind, types, i) ==
    IF i > Len(types) THEN <<>>
    ELSE (IF type_matches_kind(types[i], kind) THEN <<i>> ELSE <<>>)
         \o visit_fold_all_matches(kind, types, i + 1)

\* _visit_node::visit: the fold (matches ? (lambda(node), true) : false) || ...
\* from callback i on; the callbacks it invokes, by position.
RECURSIVE visit_fold(_, _, _)
visit_fold(kind, types, i) ==
    IF i > Len(types) THEN <<>>
    ELSE IF type_matches_kind(types[i], kind) THEN <<i>>
    ELSE visit_fold(kind, types, i + 1)

CallbackLists == UNION {[1..n -> Types] : n \in 0..MaxCallbacks}

\* Fault: visit<true> does not test found_callback.
visit_returns_unchecked(all, asserts, invoked) == "returned"

\* How _visit_node::visit<All> ends after the fold: DRYAD_ASSERT(found_callback)
\* under if constexpr (All), in a build with DRYAD_ENABLE_ASSERT or without
visit_returns(all, asserts, invoked) ==
    IF all /\ asserts /\ invoked = <<>> THEN "assert_failed" ELSE "returned"

\* A visit_node / visit_node_all call with its arguments, in a build with
\* assertions or without, not yet run.
InitVisit ==
    /\ TreeInit
    /\ map = MapInit
    /\ forest = ForestInit
    /\ heap = HeapInit
    /\ interner = InternerInit
    /\ symtab = SymtabInit
    /\ walk = WalkInit
    /\ rootlist = RootlistInit
    /\ typed = TypedInit
    /\ wide = WideInit
    /\ painted = <<>>
    /\ resource = ResourceInit
    /\ \E kind \in Kinds, types \in CallbackLists, all \in BOOLEAN, asserts \in BOOLEAN :
          visit = [state |-> "called", kind |-> kind, types |-> types,
                   all |-> all, asserts |-> asserts, invoked |-> <<>>]

\* visit_node(node, lambdas...) and visit_node_all(node, lambdas...)
VisitNode ==
    /\ visit.state = "called"
    /\ LET invoked == visit_fold(visit.kind, visit.types, 1)
       IN  visit' = [visit EXCEPT
                        !.invoked = invoked,
                        !.state = visit_returns(visit.all, visit.asserts, invoked)]
    /\ UNCHANGED <<arena, mem, root, kids, set_roots, contract, erased, map, forest, heap, interner, symtab,
                   walk, rootlist, typed, wide, painted, resource>>

NextVisit == VisitNode

\* One call of visit_node or visit_node_all on any kind and callback list.
SpecVisit == InitVisit /\ [][NextVisit]_vars

\* The callbacks whose parameter type matches the visited node's kind.
Matching == {i \in 1..Len(visit.types) : type_matches_kind(visit.types[i], visit.kind)}

\* C5: a call invokes at most one callback, the first whose type matches the
\* node's kind, and none after it.
C5_FirstMatchOnly ==
    visit.state # "called" =>
        /\ Len(visit.invoked) <= 1
        /\ Matching = {} => visit.invoked = <<>>
        /\ Matching # {} =>
              visit.invoked = <<CHOOSE i \in Matching : \A j \in Matching : i <= j>>

\* The catch-all node callback comes first and takes the node from the
\* concrete callback after it.
C5_Witness ==
    /\ visit.state = "returned"
    /\ Len(visit.types) = 2
    /\ visit.types[1] = NodeType
    /\ visit.types[2] = BasicType(visit.kind)
    /\ visit.invoked = <<1>>

\* ------------------------------------------------ node_map's operations

\* Node pointers whose hashes fall on one slot of a table of 64 entries; the
\* first and the third also on one slot of a table of 128.
CollidingKeys == {8 * 1, 8 * 65, 8 * 129}

\* Node pointers with table slots of their own.
FillKey(i) == 8 * (2 + i)

FillKeys == {FillKey(i) : i \in 1..NumFill}

MapKeys == CollidingKeys \cup FillKeys

MapValues == {1, 2}

\* The map after insert(FillKey(i), 1) for i = lo..hi-1, in this order.
RECURSIVE Filled(_, _, _)
Filled(m, lo, hi) ==
    IF hi <= lo THEN m
    ELSE IF hi = lo + 1
    THEN [m EXCEPT !.nm = node_map_insert(m.nm, FillKey(lo), 1).nm,
                   !.M = Put(m.M, FillKey(lo), 1)]
    ELSE LET mid == (lo + hi) \div 2
         IN  CHOOSE r \in {Filled(left, mid, hi) : left \in {Filled(m, lo, mid)}} : TRUE

InitMap ==
    /\ TreeInit
    /\ visit = VisitInit
    /\ forest = ForestInit
    /\ heap = HeapInit
    /\ interner = InternerInit
    /\ symtab = SymtabInit
    /\ walk = WalkInit
    /\ rootlist = RootlistInit
    /\ typed = TypedInit
    /\ wide = WideInit
    /\ painted = <<>>
    /\ resource = ResourceInit
    /\ \E n \in {0, NumFill} : map = Filled(MapInit, 1, n + 1)

\* The calls that add an entry are made while the map counts fewer than
\* MaxLive entries beyond the fill keys.
MayGrow == map.nm.t.size < Cardinality(DOMAIN map.M \ CollidingKeys) + MaxLive

MapIdle ==
    UNCHANGED <<arena, mem, root, kids, set_roots, contract, erased, visit, forest, heap, interner, symtab,
                walk, rootlist, typed, wide, painted, resource>>

Without(f, k) == [x \in DOMAIN f \ {k} |-> f[x]]

\* node_map::insert(k, v)
MapInsert(k, v) ==
    /\ MayGrow
    /\ LET r == node_map_insert(map.nm, k, v)
       IN  map' = [nm |-> r.nm, ret |-> Returned(r.ret),
                   expected |-> Returned(k \notin DOMAIN map.M),
                   M |-> IF k \in DOMAIN map.M THEN map.M ELSE Put(map.M, k, v)]
    /\ MapIdle

\* node_map::insert_or_update(k, v)
MapInsertOrUpdate(k, v) ==
    /\ MayGrow
    /\ LET r == node_map_insert_or_update(map.nm, k, v)
       IN  map' = [nm |-> r.nm, ret |-> Returned(r.ret),
                   expected |-> Returned(k \notin DOMAIN map.M),
                   M |-> Put(map.M, k, v)]
    /\ MapIdle

\* node_map::remove(k)
MapRemove(k) ==
    /\ LET r == node_map_remove(map.nm, k)
       IN  map' = [nm |-> r.nm, ret |-> Returned(r.ret),
                   expected |-> Returned(k \in DOMAIN map.M),
                   M |-> Without(map.M, k)]
    /\ MapIdle

\* node_map::rehash(n)
MapRehash(n) ==
    /\ map' = [map EXCEPT !.nm = node_map_rehash(map.nm, n),
                          !.ret = "none", !.expected = "none"]
    /\ MapIdle

\* The capacities asked of rehash: below MinTableSize, and above it twice.
RehashRequests == {10, 100, 200}

NextMap ==
    \/ \E k \in CollidingKeys : \E v \in MapValues : MapInsert(k, v)
    \/ \E k \in CollidingKeys : \E v \in MapValues : MapInsertOrUpdate(k, v)
    \/ \E k \in CollidingKeys : MapRemove(k)
    \/ \E n \in RehashRequests : MapRehash(n)

\* A node_map under insert, insert_or_update, remove and rehash.
SpecMap == InitMap /\ [][NextMap]_vars

\* -------------------------------------------- hash_forest's operations

Leaves == {Leaf(d) : d \in 1..MaxData}

\* The children a built container may have.
ChildLists ==
    UNION {[1..n -> Leaves \cup {Container(<<>>)}] : n \in 0..MaxChildren}

\* The subtrees handed to build.
Shapes == Leaves \cup {Container(cs) : cs \in ChildLists}

BuiltShapes == {h[1] : h \in forest.hist}

InitForest ==
    /\ TreeInit
    /\ visit = VisitInit
    /\ map = MapInit
    /\ forest = ForestInit
    /\ heap = HeapInit
    /\ interner = InternerInit
    /\ symtab = SymtabInit
    /\ walk = WalkInit
    /\ rootlist = RootlistInit
    /\ typed = TypedInit
    /\ wide = WideInit
    /\ painted = <<>>
    /\ resource = ResourceInit

ForestIdle == UNCHANGED <<root, kids, set_roots, contract, erased, visit, map, heap, interner, symtab, walk, rootlist, typed, wide, painted, resource>>

\* hash_forest::build(builder), the builder constructing the subtree s; a
\* new root is built while the forest stores fewer than MaxRoots.
Build(s) ==
    /\ ~forest.roots.crashed
    /\ forest.roots.t.size < MaxRoots \/ s \in BuiltShapes
    /\ LET r == hash_forest_build(forest.roots, arena, mem, s)
       IN  /\ arena' = r.arena
           /\ mem' = Live(r.arena, r.mem)
           /\ forest' = IF r.roots.crashed THEN [forest EXCEPT !.roots = r.roots]
                         ELSE [forest EXCEPT !.roots = r.roots,
                                             !.hist = @ \cup {<<s, r.result>>},
                                             !.existing = r.existing]
    /\ ForestIdle

\* hash_forest::rehash(n)
ForestRehash(n) ==
    /\ ~forest.roots.crashed
    /\ forest' = [forest EXCEPT !.roots = forest_rehash(forest.roots, n, mem)]
    /\ UNCHANGED <<arena, mem>>
    /\ ForestIdle

NextForest ==
    \/ \E s \in Shapes : Build(s)
    \/ \E n \in {10, 100} : ForestRehash(n)

\* A hash_forest under build and rehash.
SpecForest == InitForest /\ [][NextForest]_vars

\* C6: any two build calls returned the same root pointer if and only if the
\* subtrees their builders constructed are structurally equal.
C6_SameRootIffEqual ==
    \A x, y \in forest.hist : (x[2] = y[2]) <=> (x[1] = y[1])

\* A build found its root stored, in a table that was rehashed and stores two
\* different subtrees of one hash.
C6_Witness ==
    /\ forest.existing
    /\ forest.roots.t.cap > MinTableSize
    /\ \E x, y \in forest.hist :
          /\ x[1] # y[1]
          /\ hash_base(mem, x[2]) = hash_base(mem, y[2])

\* C7: a build of a subtree that was built before leaves the arena's top()
\* where it was, so that the next allocation returns what it would have
\* returned before the call, leaves root_count() as it was, and leaves every
\* node of the stored roots' subtrees as it was.
C7_DuplicateRewinds ==
    [][\A s \in BuiltShapes :
          Build(s) =>
              /\ ArenaTop(arena') = ArenaTop(arena)
              /\ ArenaAllocate(arena', sizeof_node, alignof_node).result
                    = ArenaAllocate(arena, sizeof_node, alignof_node).result
              /\ forest'.roots.t.size = forest.roots.t.size
              /\ \A n \in DOMAIN mem : n \in DOMAIN mem' /\ mem'[n] = mem[n]]_vars

\* A build found its root stored among several.
C7_Witness ==
    /\ forest.existing
    /\ forest.roots.t.size >= 2
    /\ Cardinality(DOMAIN mem) >= 4

\* C8: whenever the table has been allocated, size() < capacity() and
\* size() <= capacity() / 2, and every key that was inserted and not removed
\* since is found by lookup_entry, whose valid handle is the key's own slot.
C8_LoadAndFound ==
    map.nm.t.cap > 0 =>
        /\ map.nm.t.size < map.nm.t.cap
        /\ map.nm.t.size <= map.nm.t.cap \div 2
        /\ \A k \in DOMAIN map.M :
              LET h == lookup_entry(map.nm.t, k, node_traits)
              IN  h.valid /\ map.nm.t.table[h.idx] = k

\* C9: a remove(a) that leaves a tombstone does not hide another key: every
\* key b /= a that was found before the call is found after it.
C9_TombstoneKeepsProbe ==
    [][\A a \in CollidingKeys :
          MapRemove(a) =>
              \A b \in MapKeys \ {a} :
                  node_map_contains(map.nm, b) => node_map_contains(map'.nm, b)]_vars

\* C10: node_map refines the finite map M: every call returns what M asks
\* for, and contains, lookup and size report membership in M, M[k] (nullptr
\* without one) and the number of keys of M.
C10_RefinesFiniteMap ==
    /\ map.ret = map.expected
    /\ map.nm.t.size = Cardinality(DOMAIN map.M)
    /\ \A k \in MapKeys :
          /\ node_map_contains(map.nm, k) = (k \in DOMAIN map.M)
          /\ node_map_lookup(map.nm, k) = (IF k \in DOMAIN map.M THEN map.M[k] ELSE nullptr)

\* C11: rehash(n) leaves size() as it was and every key that was found before
\* it is found afterwards with the value it had; afterwards capacity() >= n,
\* and a request not larger than the capacity changes nothing.
C11_RehashKeepsMapping ==
    [][\A n \in RehashRequests :
          MapRehash(n) =>
              /\ map'.nm.t.size = map.nm.t.size
              /\ \A k \in MapKeys :
                    node_map_contains(map.nm, k) =>
                        /\ node_map_contains(map'.nm, k)
                        /\ node_map_lookup(map'.nm, k) = node_map_lookup(map.nm, k)
              /\ map'.nm.t.cap >= n
              /\ map'.nm.t.cap >= map.nm.t.cap
              /\ n <= map.nm.t.cap => map'.nm = map.nm]_vars

\* --------------------------------------------------- the arena's operations

\* The sizes passed to allocate: none, one byte, a node, max_allocation_size.
AllocSizes == {0, 1, sizeof_node, block_size}

\* The alignments passed to allocate: of char and of void*.
Alignments == {1, sizeof_ptr}

InitArena ==
    /\ TreeInit
    /\ visit = VisitInit
    /\ map = MapInit
    /\ forest = ForestInit
    /\ heap = HeapInit
    /\ interner = InternerInit
    /\ symtab = SymtabInit
    /\ walk = WalkInit
    /\ rootlist = RootlistInit
    /\ typed = TypedInit
    /\ wide = WideInit
    /\ painted = <<>>
    /\ resource = ResourceInit

ArenaIdle ==
    UNCHANGED <<mem, root, kids, set_roots, contract, erased, visit, map, forest, interner, symtab, walk, rootlist, typed, wide, painted, resource>>

\* arena::allocate(size, alignment)
Allocate(size, alignment) ==
    /\ heap.count < MaxAllocs
    /\ LET r == ArenaAllocate(arena, size, alignment)
       IN  /\ r.arena.allocated <= MaxBlocks
           /\ arena' = r.arena
           /\ heap' = [heap EXCEPT
                  !.calls = IF heap.fresh
                            THEN Append(@, [size |-> size, alignment |-> alignment])
                            ELSE @,
                  !.results = IF heap.fresh THEN Append(@, r.result) ELSE @,
                  !.count = @ + 1,
                  !.epoch = Append(@, [p |-> r.result, size |-> size,
                                       alignment |-> alignment,
                                       block |-> r.arena.cur_block])]
    /\ ArenaIdle

\* m = arena::top()
Top ==
    /\ heap' = [heap EXCEPT !.has_marker = TRUE, !.marker = ArenaTop(arena)]
    /\ UNCHANGED arena
    /\ ArenaIdle

\* arena::unwind(m)
Unwind ==
    /\ heap.has_marker
    /\ arena' = ArenaUnwind(arena, heap.marker)
    /\ heap' = [heap EXCEPT !.fresh = FALSE, !.calls = <<>>, !.results = <<>>,
                            !.epoch = <<>>]
    /\ ArenaIdle

\* arena::clear(); a marker taken before it is not used after it
Clear ==
    /\ arena' = ArenaClear(arena)
    /\ heap' = [HeapInit EXCEPT !.fresh = FALSE]
    /\ ArenaIdle

NextArena ==
    \/ \E size \in AllocSizes : \E alignment \in Alignments : Allocate(size, alignment)
    \/ Top
    \/ Unwind
    \/ Clear

\* An arena under allocate, top, unwind and clear.
SpecArena == InitArena /\ [][NextArena]_vars

\* C12: in every reachable arena state, with m = top() and p what a following
\* allocate(s, a) returns, allocate(s, a) after unwind(m) returns p again
\* and requests no block.
C12_UnwindReallocates ==
    \A size \in AllocSizes : \A alignment \in Alignments :
        LET m     == ArenaTop(arena)
            first == ArenaAllocate(arena, size, alignment)
            again == ArenaAllocate(ArenaUnwind(first.arena, m), size, alignment)
        IN  /\ again.result = first.result
            /\ again.arena.allocated = first.arena.allocated

\* C13: after any sequence of allocate calls on a freshly constructed arena,
\* clear() and the same calls again return the same addresses, call by call,
\* and request no block.
C13_ClearReplays ==
    heap.fresh =>
        LET again == arena_run(ArenaClear(arena), heap.calls)
        IN  /\ again.results = heap.results
            /\ again.arena.allocated = arena.allocated

\* Two allocations share no byte.
Disjoint(x, y) ==
    x.size = 0 \/ y.size = 0 \/ x.p + x.size <= y.p \/ y.p + y.size <= x.p

\* C14: the allocations made with no clear or unwind between them are
\* pairwise disjoint; each starts at a multiple of its alignment and lies
\* inside the block that was current when it returned, which the arena
\* still holds.
C14_DisjointAligned ==
    /\ \A i, j \in 1..Len(heap.epoch) : i < j => Disjoint(heap.epoch[i], heap.epoch[j])
    /\ \A i \in 1..Len(heap.epoch) :
          LET x == heap.epoch[i]
          IN  /\ x.p % x.alignment = 0
              /\ x.block = nullptr => x.size = 0
              /\ x.block # nullptr =>
                    /\ x.block \in DOMAIN arena.next
                    /\ BlockMemory(x.block) <= x.p
                    /\ x.p + x.size <= BlockEnd(x.block)

\* Three allocations in two blocks, the second moved up to its alignment.
C14_Witness ==
    /\ Len(heap.epoch) = 3
    /\ heap.epoch[1].size = 1
    /\ heap.epoch[2].alignment = sizeof_ptr
    /\ heap.epoch[2].p = heap.epoch[1].p + sizeof_ptr
    /\ heap.epoch[3].block # heap.epoch[2].block

\* ------------------------------------------- symbol_interner's operations

\* The strings interned: "a", "sf" and "jy" hash to slot 140 of a table of
\* 1024 entries, "a" and "sf" to slot 1164 of a table of 2048; "b" does not
\* meet them.
Strings == {<<97>>, <<115, 102>>, <<106, 121>>, <<98>>}

\* The arguments of reserve: number of symbols and average length.
Reservations == {<<2, 2>>, <<10, 3>>, <<2000, 10>>}

InitInterner ==
    /\ TreeInit
    /\ visit = VisitInit
    /\ map = MapInit
    /\ forest = ForestInit
    /\ heap = HeapInit
    /\ interner = InternerInit
    /\ symtab = SymtabInit
    /\ walk = WalkInit
    /\ rootlist = RootlistInit
    /\ typed = TypedInit
    /\ wide = WideInit
    /\ painted = <<>>
    /\ resource = ResourceInit

InternerIdle ==
    UNCHANGED <<arena, mem, root, kids, set_roots, contract, erased, visit, map, forest, heap, symtab, walk, rootlist, typed, wide, painted, resource>>

\* symbol_interner::intern(str, length) with the length of str
Intern(str) ==
    /\ LET r == intern(interner.buffer, interner.map, str, Len(str))
       IN  interner' = [buffer |-> r.buffer, map |-> r.map,
                        hist |-> interner.hist \cup {<<str, r.symbol>>}]
    /\ InternerIdle

\* symbol_interner::reserve(number_of_symbols, average_symbol_length)
Reserve(n, length) ==
    /\ LET r == interner_reserve(interner.buffer, interner.map, n, length)
       IN  interner' = [interner EXCEPT !.buffer = r.buffer, !.map = r.map]
    /\ InternerIdle

NextInterner ==
    \/ \E str \in Strings : Intern(str)
    \/ \E r \in Reservations : Reserve(r[1], r[2])

\* A symbol_interner under intern and reserve.
SpecInterner == InitInterner /\ [][NextInterner]_vars

\* C15: any two intern calls returned equal symbols if and only if their
\* strings are equal.
C15_EqualIffSameString ==
    \A x, y \in interner.hist : (x[2] = y[2]) <=> (x[1] = y[1])

\* C16: the c_str of every symbol an intern call returned is the string that
\* was passed, ending with a null character, whatever was interned or
\* reserved since.
C16_CStrRoundTrip ==
    \A x \in interner.hist :
        /\ buffer_c_str(interner.buffer, x[2]) = x[1]
        /\ x[2] + Len(x[1]) < Len(interner.buffer.data)
        /\ interner.buffer.data[x[2] + Len(x[1]) + 1] = 0

\* ---------------------------------------------- symbol_table's operations

\* Symbol ids that fall on one slot of a table of 64 entries; the first and
\* the third also on one slot of a table of 128.
CollidingSymbols == {1, 65, 129}

\* The declarations bound: pointers that are not null.
Decls == {1, 2}

\* The capacities asked of symbol_table::rehash.
TableRehashRequests == {10, 100}

InitTable ==
    /\ TreeInit
    /\ visit = VisitInit
    /\ map = MapInit
    /\ forest = ForestInit
    /\ heap = HeapInit
    /\ interner = InternerInit
    /\ symtab = SymtabInit
    /\ walk = WalkInit
    /\ rootlist = RootlistInit
    /\ typed = TypedInit
    /\ wide = WideInit
    /\ painted = <<>>
    /\ resource = ResourceInit

TableIdle ==
    UNCHANGED <<arena, mem, root, kids, set_roots, contract, erased, visit, map, forest, heap, interner,
                walk, rootlist, typed, wide, painted, resource>>

\* symbol_table::insert_or_shadow(s, d), called while the table counts fewer
\* than MaxLive entries
InsertOrShadow(s, d) ==
    /\ symtab.st.t.size < MaxLive
    /\ LET r == insert_or_shadow(symtab.st, s, d)
       IN  symtab' = [st |-> r.st, B |-> Put(symtab.B, s, d), ret |-> r.ret]
    /\ TableIdle

\* symbol_table::remove(s)
TableRemove(s) ==
    /\ LET r == symbol_table_remove(symtab.st, s)
       IN  symtab' = [st |-> r.st, B |-> Without(symtab.B, s), ret |-> r.ret]
    /\ TableIdle

\* symbol_table::rehash(n)
TableRehash(n) ==
    /\ symtab' = [symtab EXCEPT !.st = symbol_table_rehash(symtab.st, n),
                                !.ret = DeclRef]
    /\ TableIdle

NextTable ==
    \/ \E s \in CollidingSymbols : \E d \in Decls : InsertOrShadow(s, d)
    \/ \E s \in CollidingSymbols : TableRemove(s)
    \/ \E n \in TableRehashRequests : TableRehash(n)

\* A symbol_table under insert_or_shadow, remove and rehash.
SpecTable == InitTable /\ [][NextTable]_vars

\* The declaration the bindings B hold for s, DeclRef() without one.
Bound(B, s) == IF s \in DOMAIN B THEN B[s] ELSE DeclRef

\* C17: insert_or_shadow(s, d) returns DeclRef() and adds one to size() when
\* s is unbound, returns the declaration bound to s and leaves size() when s
\* is bound; afterwards lookup(s) is d and lookup of every other symbol is
\* what it was.
C17_InsertOrShadow ==
    [][\A s \in CollidingSymbols : \A d \in Decls :
          InsertOrShadow(s, d) =>
              /\ symtab'.ret = Bound(symtab.B, s)
              /\ symtab'.st.t.size
                    = symtab.st.t.size + (IF s \in DOMAIN symtab.B THEN 0 ELSE 1)
              /\ symbol_table_lookup(symtab'.st, s) = d
              /\ \A o \in CollidingSymbols \ {s} :
                    symbol_table_lookup(symtab'.st, o)
                        = symbol_table_lookup(symtab.st, o)]_vars

\* C18: remove(s) returns the declaration bound to s, DeclRef() without one,
\* takes one from size() if s was bound, and leaves lookup(s) as DeclRef();
\* every other bound symbol is still looked up with its declaration.
C18_Remove ==
    [][\A s \in CollidingSymbols :
          TableRemove(s) =>
              /\ symtab'.ret = Bound(symtab.B, s)
              /\ symtab'.st.t.size
                    = symtab.st.t.size - (IF s \in DOMAIN symtab.B THEN 1 ELSE 0)
              /\ s \notin DOMAIN symtab.B => symtab'.st = symtab.st
              /\ symbol_table_lookup(symtab'.st, s) = DeclRef
              /\ \A o \in DOMAIN symtab.B \ {s} :
                    symbol_table_lookup(symtab.st, o) = symtab.B[o]
                        => symbol_table_lookup(symtab'.st, o) = symtab.B[o]]_vars

\* C19: begin() to end() yields every bound symbol once, with its
\* declaration, and nothing else: size() elements, none for an empty table.
C19_IterationIsBindings ==
    LET it == symbol_table_iterate(symtab.st)
    IN  /\ Len(it) = symtab.st.t.size
        /\ Len(it) = Cardinality(DOMAIN symtab.B)
        /\ \A s \in DOMAIN symtab.B :
              Cardinality({i \in 1..Len(it) :
                              it[i] = [symbol |-> s, decl |-> symtab.B[s]]}) = 1
        /\ \A i \in 1..Len(it) : it[i].symbol \in DOMAIN symtab.B

\* ------------------------------------------------------ visit_tree (C20)

\* A callback of visit_tree is [type, sig]: the node type it takes and its
\* signature, (traverse_event, T*) as "event", (traverse_event_enter, T*) as
\* "enter", (traverse_event_exit, T*) as "exit", (T*) as "node", and
\* (child_visitor, T*) as "child_visitor" with a body that visits no child,
\* as ignore_node<T> has, or as "child_visitor_front" with a body that passes
\* the node's first child, if it has one, to the child_visitor.
Signatures == {"event", "enter", "exit", "node", "child_visitor", "child_visitor_front"}

\* The signatures of the overload call(priority_tag<4>, ...)
ChildVisitors == {"child_visitor", "child_visitor_front"}

\* Whether a callback of signature sig is invoked on the event ev
takes_event(sig, ev) ==
    CASE sig = "event" -> TRUE
      [] sig = "enter" -> ev = "enter"
      [] sig = "exit" -> ev = "exit"
      [] sig = "node" -> ev # "exit"
      [] sig \in ChildVisitors -> ev = "enter"

\* Fault: a callback whose type matched ends the search, as in visit_node.
call_returns_matched(t) == TRUE

\* Fault: no callback ends the search, a non-abstract type included.
call_returns_never(t) == FALSE

\* What _visit_tree::call returns once node_try_cast<T> succeeded
call_returns(t) == ~type_is_abstract(t)

\* _traverse_range::iterator::skip_children
skip_children(it) == [it EXCEPT !.ev = "exit"]

RECURSIVE call(_, _, _, _)
RECURSIVE visit_tree_fold(_, _, _, _)
RECURSIVE visit_tree_loop(_, _, _, _, _, _)
RECURSIVE visit_tree_from(_, _, _, _)

\* _visit_tree::call<T>(priority_tag<4>, iter, lambda) for callback i:
\* [it, ret, invoked, nested], invoked the events the lambda was invoked with
\* and nested the iterations of the visits its child_visitor made
call(m, it, lambdas, i) ==
    LET lambda == lambdas[i]
    IN  IF ~type_matches_kind(lambda.type, m[it.cur].kind)
        THEN [it |-> it, ret |-> FALSE, invoked |-> <<>>, nested |-> <<>>]
        ELSE IF lambda.sig \in ChildVisitors /\ it.ev = "enter"
        THEN [it |-> skip_children(it),
              ret |-> call_returns(lambda.type),
              invoked |-> <<it.ev>>,
              nested |-> IF lambda.sig = "child_visitor_front" /\ has_children(m, it.cur)
                         THEN visit_tree_from(m, children_begin(m, it.cur), lambdas,
                                              it.cur)
                         ELSE <<>>]
        ELSE [it |-> it,
              ret |-> call_returns(lambda.type),
              invoked |-> IF takes_event(lambda.sig, it.ev) THEN <<it.ev>> ELSE <<>>,
              nested |-> <<>>]

\* the fold (call<NodeTypes>(...) || ...) of _visit_tree::visit from callback
\* i on: [it, invoked, nested], invoked the <<callback, event>> pairs in order
visit_tree_fold(m, it, lambdas, i) ==
    IF i > Len(lambdas) THEN [it |-> it, invoked |-> <<>>, nested |-> <<>>]
    ELSE LET r       == call(m, it, lambdas, i)
             invoked == [j \in 1..Len(r.invoked) |-> <<i, r.invoked[j]>>]
         IN  IF r.ret THEN [it |-> r.it, invoked |-> invoked, nested |-> r.nested]
             ELSE LET rest == visit_tree_fold(m, r.it, lambdas, i + 1)
                  IN  [it |-> rest.it, invoked |-> invoked \o rest.invoked,
                       nested |-> r.nested \o rest.nested]

\* the loop of _visit_tree::visit from iter to range.end(): for every
\* iteration the node and event it began with, what it invoked and the
\* container whose callback asked for the visit (nullptr: the caller did),
\* followed by the iterations of the visits its callbacks asked for
visit_tree_loop(m, it, end, lambdas, from, fuel) ==
    IF it = end \/ fuel = 0 \/ it.cur \notin DOMAIN m THEN <<>>
    ELSE LET f == visit_tree_fold(m, it, lambdas, 1)
         IN  <<[cur |-> it.cur, ev |-> it.ev, invoked |-> f.invoked, from |-> from]>>
             \o f.nested
             \o visit_tree_loop(m, traverse_increment(m, f.it), end, lambdas, from,
                                fuel - 1)

\* _visit_tree::visit(tree_or_node)
visit_tree_from(m, n, lambdas, from) ==
    visit_tree_loop(m, traverse_begin(m, n), traverse_end(m, n), lambdas, from, Fuel(m))

\* visit_tree(node, lambdas...)
visit_tree(m, n, lambdas) == visit_tree_from(m, n, lambdas, nullptr)

\* The node types of the callbacks: leaf_node, container_node, the abstract
\* node and an abstract range of the container kind.
TreeTypes == {BasicType(kind_leaf), BasicType(kind_container), NodeType, RangeType}

TreeCallbacks == [type : TreeTypes, sig : Signatures]

TreeCallbackLists == UNION {[1..n -> TreeCallbacks] : n \in 0..MaxTreeCallbacks}

\* The tree visited: a container of a container of a leaf, a leaf, and an
\* empty container.
WalkedTree ==
    Container(<<Container(<<Leaf(2)>>), Leaf(1), Container(<<>>)>>)

\* A tree built and made the root, and a visit_tree call with its callbacks,
\* not yet run.
InitWalk ==
    /\ LET built == construct([arena |-> ArenaInit, mem |-> <<>>], WalkedTree)
       IN  /\ arena = built.arena
           /\ mem = set_root(built.mem, built.node)
           /\ root = built.node
           /\ set_roots = [all |-> {built.node}, last |-> built.node]
           /\ erased = nullptr
           /\ contract = ContractInit
    /\ kids = <<>>
    /\ visit = VisitInit
    /\ map = MapInit
    /\ forest = ForestInit
    /\ heap = HeapInit
    /\ interner = InternerInit
    /\ symtab = SymtabInit
    /\ rootlist = RootlistInit
    /\ typed = TypedInit
    /\ wide = WideInit
    /\ painted = <<>>
    /\ resource = ResourceInit
    /\ \E lambdas \in TreeCallbackLists :
          walk = [state |-> "called", lambdas |-> lambdas, log |-> <<>>]

\* visit_tree(tree, lambdas...)
VisitTree ==
    /\ walk.state = "called"
    /\ walk' = [walk EXCEPT !.state = "returned",
                            !.log = visit_tree(mem, root, walk.lambdas)]
    /\ UNCHANGED <<arena, mem, root, kids, set_roots, contract, erased, visit, map, forest, heap,
                   interner, symtab, rootlist, typed, wide, painted, resource>>

NextWalk == VisitTree

\* One call of visit_tree on the tree with any callback list.
SpecWalk == InitWalk /\ [][NextWalk]_vars

\* The callbacks whose node type matches the kind of node n.
MatchingAt(n) ==
    {i \in 1..Len(walk.lambdas) : type_matches_kind(walk.lambdas[i].type, mem[n].kind)}

\* The callbacks an iteration invoked.
InvokedAt(k) == {walk.log[k].invoked[j][1] : j \in 1..Len(walk.log[k].invoked)}

ConcreteAt(n) == {i \in MatchingAt(n) : ~type_is_abstract(walk.lambdas[i].type)}

NoChildVisitor ==
    \A i \in 1..Len(walk.lambdas) : walk.lambdas[i].sig \notin ChildVisitors

\* C21: a matching callback of abstract type does not end the search and a
\* matching callback of non-abstract type ends it whether or not its event
\* filter takes the event: no callback after a matching non-abstract one is
\* invoked, and, the event being the same for all callbacks tried, the
\* callbacks invoked are exactly the matching ones up to the first matching
\* non-abstract one whose signature takes the event.
C21_ConcreteSwallows ==
    walk.state = "returned" =>
        \A k \in 1..Len(walk.log) :
            LET n     == walk.log[k].cur
                tried == {i \in MatchingAt(n) : \A j \in ConcreteAt(n) : i <= j}
            IN  /\ InvokedAt(k) \subseteq tried
                /\ NoChildVisitor =>
                      InvokedAt(k) =
                          {i \in tried : takes_event(walk.lambdas[i].sig, walk.log[k].ev)}

\* A catch-all, then a callback taking leaf_node on exit events only, then a
\* second catch-all: a leaf event invoked the first catch-all only, the
\* leaf_node callback swallowed it; an exit event reached the second one.
C21_Witness ==
    /\ walk.state = "returned"
    /\ Len(walk.lambdas) = 3
    /\ walk.lambdas[1] = [type |-> NodeType, sig |-> "node"]
    /\ walk.lambdas[2] = [type |-> BasicType(kind_leaf), sig |-> "exit"]
    /\ walk.lambdas[3] = [type |-> NodeType, sig |-> "event"]
    /\ \E k \in 1..Len(walk.log) :
          /\ walk.log[k].ev = "leaf"
          /\ InvokedAt(k) = {1}
    /\ \E k \in 1..Len(walk.log) :
          /\ walk.log[k].ev = "exit"
          /\ InvokedAt(k) = {3}

\* ------------------------------------------------ child_visitor (C22)

\* The nodes traverse(n) yields events for: n and its descendants.
SubtreeOf(m, n) == {traverse(m, n)[i].cur : i \in 1..Len(traverse(m, n))}

\* The callbacks of shape (child_visitor, T*) an iteration invoked.
ChildVisitorsAt(k) == {i \in InvokedAt(k) : walk.lambdas[i].sig \in ChildVisitors}

\* The node a visit began at: the root for the caller's visit, the first
\* child of the container whose callback asked for it otherwise.
VisitRoot(from) == IF from = nullptr THEN root ELSE children_begin(mem, from)

\* The iteration after k in the same visit, 0 if k is its last.
NextInVisit(k) ==
    LET later == {j \in (k + 1)..Len(walk.log) : walk.log[j].from = walk.log[k].from}
    IN  IF later = {} THEN 0 ELSE CHOOSE j \in later : \A i \in later : j <= i

\* After a child_visitor callback on container c in iteration k, the
\* traversal goes on with what follows c.
ResumesAfter(k) ==
    LET s     == walk.log[k]
        after == traverse_increment(mem, [cur |-> s.cur, ev |-> "exit"])
        j     == NextInVisit(k)
    IN  IF j = 0 THEN after = traverse_end(mem, VisitRoot(s.from))
        ELSE after = [cur |-> walk.log[j].cur, ev |-> walk.log[j].ev]

\* The nodes visited because the callback of container c passed them on are
\* c's first child and nodes below it if the callback passes it, none if not.
VisitsOnlyPassed(k) ==
    LET c      == walk.log[k].cur
        passed == {walk.log[j].cur : j \in {i \in 1..Len(walk.log) : walk.log[i].from = c}}
    IN  IF /\ \E i \in ChildVisitorsAt(k) : walk.lambdas[i].sig = "child_visitor_front"
           /\ has_children(mem, c)
        THEN /\ children_begin(mem, c) \in passed
             /\ passed \subseteq SubtreeOf(mem, children_begin(mem, c))
        ELSE passed = {}

\* The iterations for nodes below c all belong to visits that callbacks of
\* containers in c's subtree asked for.
BelowOnlyPassed(k) ==
    LET c == walk.log[k].cur
    IN  \A j \in 1..Len(walk.log) :
            walk.log[j].cur \in SubtreeOf(mem, c) \ {c} =>
                walk.log[j].from \in SubtreeOf(mem, c)

\* C22: a (child_visitor, T*) callback is invoked only on the enter event of
\* a matching container; no callback is then invoked with the exit event of
\* that container and no iteration is made for it, a node below the container
\* is visited only in a visit a callback asked for, the child the callback
\* passes on is visited with the same callbacks, and the traversal goes on
\* with what follows the container.
C22_ChildVisitorSkips ==
    walk.state = "returned" =>
        \A k \in 1..Len(walk.log) :
            ChildVisitorsAt(k) # {} =>
                LET s == walk.log[k]
                IN  /\ s.ev = "enter"
                    /\ mem[s.cur].is_container
                    /\ ChildVisitorsAt(k) \subseteq MatchingAt(s.cur)
                    /\ \A j \in 1..Len(s.invoked) : s.invoked[j][2] = "enter"
                    /\ \A j \in 1..Len(walk.log) : walk.log[j].cur = s.cur => j = k
                    /\ BelowOnlyPassed(k)
                    /\ VisitsOnlyPassed(k)
                    /\ ResumesAfter(k)

\* ------------------------------------------------ visit_node_all (C23)

\* C23: when no callback's type matches the node's kind, visit_node_all fails
\* its assertion in a build with assertions, and visit_node invokes no
\* callback, returns and changes nothing of the tree.
C23_AllAssertsNoneMatch ==
    [][(VisitNode /\ Matching = {}) =>
          /\ visit'.invoked = <<>>
          /\ (visit.all /\ visit.asserts) => visit'.state = "assert_failed"
          /\ ~visit.all => /\ visit'.state = "returned"
                           /\ UNCHANGED <<arena, mem, root, kids, set_roots, contract, erased>>]_vars

\* A visit_node_all call with callbacks, none of them matching, has failed
\* its assertion.
C23_Witness ==
    /\ visit.state = "assert_failed"
    /\ visit.all
    /\ Len(visit.types) = MaxCallbacks
    /\ Matching = {}

\* --------------------------------------------------- the forest's operations

\* forest::insert_root(r)
InsertRoot(r) ==
    /\ r \in Unlinked
    /\ LET i == insert_root(mem, rootlist.list, r)
       IN  /\ mem' = i.m
           /\ rootlist' = [list |-> i.l, hist |-> Append(rootlist.hist, r)]
    /\ UNCHANGED <<arena, root, kids, set_roots, contract, erased, visit, map, forest, heap, interner,
                   symtab, walk, typed, wide, painted, resource>>

\* forest::insert_root_list(nodes), nodes a list of x and y
InsertRootList(x, y) ==
    /\ {x, y} \subseteq Unlinked
    /\ x # y
    /\ LET one   == push_back(mem, ListInit, x)
           nodes == push_back(one.m, one.l, y)
           i     == insert_root_list(nodes.m, rootlist.list, nodes.l)
       IN  /\ mem' = i.m
           /\ rootlist' = [list |-> i.l, hist |-> rootlist.hist \o <<x, y>>]
    /\ UNCHANGED <<arena, root, kids, set_roots, contract, erased, visit, map, forest, heap, interner,
                   symtab, walk, typed, wide, painted, resource>>

NextRoots ==
    \/ \E is_container \in BOOLEAN : Create(is_container)
    \/ \E c \in Containers : \E pos \in Positions(c) : \E child \in Unlinked :
          InsertChildAfter(c, pos, child)
    \/ \E r \in Unlinked : InsertRoot(r)
    \/ \E x, y \in Unlinked : InsertRootList(x, y)

\* The forest: create, insert_child_after, insert_root and insert_root_list,
\* in any order.
SpecRoots == Init /\ [][NextRoots]_vars

\* -------------------------------------- traversal of any linked node (C24)

C25_RootsAreOwnParents ==
    /\ \A r \in Range(rootlist.hist) : parent(mem, r) = r
    /\ forest_roots(mem, rootlist.list) = rootlist.hist

\* ------------------------------------- hash_forest::lookup_or_create (C26)

\* The keys handed to create and lookup_or_create.
Keys == 1..MaxData

\* The roots lookup_or_create stores before the calls that are checked: as
\* many as the table takes without being rehashed with roots in it.
NumKeyed == MinTableSize \div 2 - 1

FillData(i) == MaxData + i

\* The forest, as [roots, arena, mem, keyed], after
\* lookup_or_create<leaf_node>(FillData(i)) for i = lo..hi-1, in this order.
RECURSIVE Keyed(_, _, _)
Keyed(f, lo, hi) ==
    IF hi <= lo THEN f
    ELSE IF hi = lo + 1
    THEN LET r == hash_forest_lookup_or_create(f.roots, f.arena, f.mem, FillData(lo))
         IN  [roots |-> r.roots, arena |-> r.arena, mem |-> r.mem,
              keyed |-> f.keyed \cup {<<FillData(lo), r.result>>}]
    ELSE LET mid == (lo + hi) \div 2
         IN  CHOOSE r \in {Keyed(left, mid, hi) : left \in {Keyed(f, lo, mid)}} : TRUE

InitLookup ==
    /\ root = nullptr
    /\ kids = <<>>
    /\ set_roots = [all |-> {}, last |-> nullptr]
    /\ erased = nullptr
    /\ contract = ContractInit
    /\ visit = VisitInit
    /\ map = MapInit
    /\ heap = HeapInit
    /\ interner = InternerInit
    /\ symtab = SymtabInit
    /\ walk = WalkInit
    /\ rootlist = RootlistInit
    /\ typed = TypedInit
    /\ wide = WideInit
    /\ painted = <<>>
    /\ resource = ResourceInit
    /\ \E n \in {0, NumKeyed} : \E traps \in BOOLEAN :
          LET f == Keyed([roots |-> [ForestRootsInit EXCEPT !.traps = traps],
                          arena |-> ArenaInit, mem |-> <<>>, keyed |-> {}],
                         1, n + 1)
          IN  /\ arena = f.arena
              /\ mem = f.mem
              /\ forest = [ForestInit EXCEPT !.roots = f.roots, !.keyed = f.keyed]

\* The stored roots lookup_or_create<leaf_node>(k) is to find.
StoredFor(k) ==
    {r \in {forest.roots.t.table[i] : i \in DOMAIN forest.roots.t.table} :
        ~is_unoccupied(r) /\ mem[r].kind = kind_leaf /\ mem[r].data = k}

\* The calls that add a root are made while the forest stores fewer than
\* MaxRoots roots beyond those it holds at the start.
MayStore ==
    forest.roots.t.size < Cardinality({x \in forest.keyed : x[1] \notin Keys}) + MaxRoots

\* hash_forest::create<leaf_node>(d)
ForestCreate(d) ==
    /\ MayStore \/ StoredFor(d) # {}
    /\ ~forest.roots.crashed
    /\ LET r == hash_forest_build(forest.roots, arena, mem, Leaf(d))
       IN  /\ arena' = r.arena
           /\ mem' = Live(r.arena, r.mem)
           /\ forest' = IF r.roots.crashed THEN [forest EXCEPT !.roots = r.roots]
                         ELSE [forest EXCEPT !.roots = r.roots,
                                             !.hist = @ \cup {<<Leaf(d), r.result>>},
                                             !.existing = r.existing]
    /\ ForestIdle

\* hash_forest::lookup_or_create<leaf_node>(k)
LookupOrCreate(k) ==
    /\ MayStore \/ StoredFor(k) # {}
    /\ ~forest.roots.crashed
    /\ LET r == hash_forest_lookup_or_create(forest.roots, arena, mem, k)
       IN  /\ arena' = r.arena
           /\ mem' = r.mem
           /\ forest' = IF r.roots.crashed THEN [forest EXCEPT !.roots = r.roots]
                         ELSE [forest EXCEPT !.roots = r.roots,
                                             !.keyed = @ \cup {<<k, r.result>>},
                                             !.result = r.result,
                                             !.existing = r.existing]
    /\ ForestIdle

NextLookup ==
    \/ \E s \in Shapes : Build(s)
    \/ \E d \in Keys : ForestCreate(d)
    \/ \E k \in Keys : LookupOrCreate(k)
    \/ \E n \in {10, 100} : ForestRehash(n)

\* A hash_forest under build, create, lookup_or_create and rehash.
SpecLookup == InitLookup /\ [][NextLookup]_vars

\* What a lookup_or_create<leaf_node>(k) call that returns leaves behind.
LookedUpOrCreated(k) ==
    /\ IF StoredFor(k) # {}
       THEN /\ forest'.result \in StoredFor(k)
            /\ arena' = arena
            /\ mem' = mem
            /\ forest'.roots.t.size = forest.roots.t.size
       ELSE /\ forest'.result \notin DOMAIN mem
            /\ DOMAIN mem' = DOMAIN mem \cup {forest'.result}
            /\ mem'[forest'.result].kind = kind_leaf
            /\ mem'[forest'.result].data = k
            /\ \A n \in DOMAIN mem : mem'[n] = mem[n]
            /\ forest'.roots.t.size = forest.roots.t.size + 1
            /\ \E i \in DOMAIN forest'.roots.t.table :
                  forest'.roots.t.table[i] = forest'.result
    /\ \A x, y \in forest'.keyed : x[1] # y[1] => x[2] # y[2]

\* C26: lookup_or_create<T>(key) returns the root stored for an equal node of
\* type T, whichever call stored it, and allocates no node then; otherwise
\* it creates one node from key, stores it, so that root_count() grows by
\* one, and returns it; calls with unequal keys return different roots.
C26_LookupOrCreate ==
    [][\A k \in Keys :
          LookupOrCreate(k) => ~forest'.roots.crashed /\ LookedUpOrCreated(k)]_vars

\* ------------------------------------------- attaching a linked node (C29)

\* nodes of a tree whose operations are handed a node that is linked
MaxAttachNodes == 3

\* The calls below hand a node that is linked to an operation that attaches
\* it. DRYAD_PRECONDITION ends the program in a build with assertions and is
\* no check at all in a build without.
Linked == {n \in Nodes : is_linked_in_tree(mem, n)}

InitAttach ==
    /\ arena = ArenaInit
    /\ mem = <<>>
    /\ root = nullptr
    /\ kids = <<>>
    /\ set_roots = [all |-> {}, last |-> nullptr]
    /\ erased = nullptr
    /\ \E asserts \in BOOLEAN : contract = [ContractInit EXCEPT !.asserts = asserts]
    /\ visit = VisitInit
    /\ map = MapInit
    /\ forest = ForestInit
    /\ heap = HeapInit
    /\ interner = InternerInit
    /\ symtab = SymtabInit
    /\ walk = WalkInit
    /\ rootlist = RootlistInit
    /\ typed = TypedInit
    /\ wide = WideInit
    /\ painted = <<>>
    /\ resource = ResourceInit

\* DRYAD_PRECONDITION(Expr) where Expr is false: std::abort or a failed
\* assert with DRYAD_ENABLE_ASSERT, static_cast<void>(sizeof(Expr)) without
precondition_violated(c, attempt) ==
    [c EXCEPT !.state = IF c.asserts THEN "failed" ELSE "unchecked", !.call = attempt]

\* Fault: the precondition is checked after the links are written.
checked_insert_child_after_late(asserts, m, this, pos, child) ==
    insert_child_after(m, this, pos, child)

\* container_node::insert_child_after from its DRYAD_PRECONDITION on
checked_insert_child_after(asserts, m, this, pos, child) ==
    IF asserts /\ is_linked_in_tree(m, child) THEN m
    ELSE insert_child_after(m, this, pos, child)

\* container_node::insert_children_after from the first precondition on
RECURSIVE checked_insert_children_after(_, _, _, _, _)
checked_insert_children_after(asserts, m, this, pos, cs) ==
    IF cs = <<>> THEN m
    ELSE IF asserts /\ is_linked_in_tree(m, Head(cs)) THEN m
    ELSE checked_insert_children_after(
             asserts, insert_child_after(m, this, pos, Head(cs)), this, Head(cs),
             Tail(cs))

\* container_node::replace_child_after from its first DRYAD_PRECONDITION on
checked_replace_child_after(asserts, m, this, pos, new_child) ==
    IF asserts /\ is_linked_in_tree(m, new_child) THEN m
    ELSE replace_child_after(m, this, pos, new_child)

\* tree::set_root from its preconditions on: [mem, root]
checked_set_root(asserts, m, old_root, r) ==
    IF asserts /\ is_linked_in_tree(m, r) THEN [mem |-> m, root |-> old_root]
    ELSE [mem |-> set_root(m, r), root |-> r]

\* The calls with a linked node are made in trees of up to MaxAttachNodes
\* nodes.
MayAttach == Running /\ Cardinality(Nodes) <= MaxAttachNodes

\* container_node::insert_child_after(pos, child), child linked
InsertLinkedChildAfter(c, pos, child) ==
    /\ MayAttach
    /\ c \in Containers
    /\ pos \in Positions(c)
    /\ child \in Linked
    /\ mem' = checked_insert_child_after(contract.asserts, mem, c, pos, child)
    /\ contract' = precondition_violated(contract, <<"insert_child_after", c, pos, child>>)
    /\ UNCHANGED <<arena, root, kids, set_roots, erased>>
    /\ TreeIdle

\* container_node::insert_children_after(pos, x, y), x not linked, y linked
\* or x itself: the fold attaches x before insert_child_after is called for y
InsertChildrenAfterLinked(c, pos, x, y) ==
    /\ MayAttach
    /\ c \in Containers
    /\ pos \in Positions(c)
    /\ x \in Unlinked
    /\ y \in Linked \cup {x}
    /\ x \notin AncestorsOrSelf(mem, c)
    /\ mem' = checked_insert_children_after(contract.asserts, mem, c, pos, <<x, y>>)
    /\ kids' = [kids EXCEPT ![c] = SeqInsertAt(@, IndexOf(@, pos), x)]
    /\ contract' = precondition_violated(contract, <<"insert_children_after", c, pos, x>>)
    /\ UNCHANGED <<arena, root, set_roots, erased>>
    /\ TreeIdle

\* container_node::replace_child_after(pos, new_child), new_child linked
ReplaceChildAfterLinked(c, pos, new_child) ==
    /\ MayAttach
    /\ c \in Containers
    /\ pos \in Positions(c)
    /\ new_child \in Linked
    /\ IF pos = nullptr THEN first_child(mem, c) # nullptr
       ELSE ~next_node_is_parent(mem, pos)
    /\ mem' = checked_replace_child_after(contract.asserts, mem, c, pos, new_child)
    /\ contract' = precondition_violated(contract, <<"replace_child_after", c, pos, new_child>>)
    /\ UNCHANGED <<arena, root, kids, set_roots, erased>>
    /\ TreeIdle

\* tree::set_root(r), r linked
SetRootLinked(r) ==
    /\ MayAttach
    /\ r \in Linked
    /\ LET s == checked_set_root(contract.asserts, mem, root, r)
       IN  mem' = s.mem /\ root' = s.root
    /\ contract' = precondition_violated(contract, <<"set_root", r>>)
    /\ UNCHANGED <<arena, kids, set_roots, erased>>
    /\ TreeIdle

NextAttach ==
    \/ \E b \in BOOLEAN : Create(b)
    \/ \E c, child \in Nodes : \E pos \in Nodes \cup {nullptr} :
          InsertChildAfter(c, pos, child)
    \/ \E r \in Nodes : SetRoot(r)
    \/ \E c, child \in Nodes : \E pos \in Nodes \cup {nullptr} :
          InsertLinkedChildAfter(c, pos, child)
    \/ \E c, x, y \in Nodes : \E pos \in Nodes \cup {nullptr} :
          InsertChildrenAfterLinked(c, pos, x, y)
    \/ \E c, new_child \in Nodes : \E pos \in Nodes \cup {nullptr} :
          ReplaceChildAfterLinked(c, pos, new_child)
    \/ \E r \in Nodes : SetRootLinked(r)

\* A tree whose operations are handed nodes that are linked already.
SpecAttach == InitAttach /\ [][NextAttach]_vars

\* A step of a call that was handed a node that is linked: no other step
\* ends the running state.
AttachLinked == contract.state = "running" /\ contract'.state # "running"

\* The containers that list n among their children.
ParentsOf(m, n) == {c \in DOMAIN m : m[c].is_container /\ n \in Range(children(m, c))}

\* No node is a child of two containers, or the root and a child.
SingleParent(m, r) ==
    \A n \in DOMAIN m :
        /\ Cardinality(ParentsOf(m, n)) <= 1
        /\ n = r => ParentsOf(m, n) = {}

LeafNodes == {n \in Nodes : ~mem[n].is_container}

\* optional_node::has_child
has_child(m, this) == first_child(m, this) # nullptr

\* optional_node::child
optional_child(m, this) == first_child(m, this)

\* optional_node::insert_child
insert_child(m, this, child) == insert_child_after(m, this, nullptr, child)

\* optional_node::erase_child
erase_child(m, this) == erase_child_after(m, this, nullptr)

\* optional_node::replace_child: [m, ret]
optional_replace_child(m, this, new_child) ==
    IF has_child(m, this)
    THEN [m |-> insert_child_after(erase_child_after(m, this, nullptr),
                                   this, nullptr, new_child),
          ret |-> first_child(m, this)]
    ELSE [m |-> insert_child(m, this, new_child), ret |-> nullptr]

\* single_node::child: *children().begin()
single_child(m, this) == children_begin(m, this)

\* single_node::single_node, on the node constructed at address this
single_node_ctor(m, this, child) == insert_child_after(m, this, nullptr, child)

\* single_node::replace_child: [m, ret]
single_replace_child(m, this, new_child) ==
    [m |-> insert_child_after(erase_child_after(m, this, nullptr),
                              this, nullptr, new_child),
     ret |-> first_child(m, this)]

InitTyped == Init

\* tree::create<leaf_node>()
CreateLeaf == Create(FALSE)

\* tree::create<T>(), T an optional_node
CreateOptional ==
    /\ Cardinality(Nodes) < MaxNodes
    /\ LET a == ArenaAllocate(arena, sizeof_node, alignof_node)
       IN  /\ arena' = a.arena
           /\ mem' = Put(mem, a.result, NewNode(kind_container, TRUE, 0))
           /\ typed' = [typed EXCEPT !.optional = @ \cup {a.result}]
    /\ UNCHANGED <<root, kids, set_roots, contract, erased>>
    /\ UNCHANGED <<visit, map, forest, heap, interner, symtab, walk, rootlist, wide, painted, resource>>

\* tree::create<T>(child), T a single_node
CreateSingle(child) ==
    /\ Cardinality(Nodes) < MaxNodes
    /\ child \in LeafNodes \cap Unlinked
    /\ LET a == ArenaAllocate(arena, sizeof_node, alignof_node)
       IN  /\ arena' = a.arena
           /\ mem' = single_node_ctor(
                         Put(mem, a.result, NewNode(kind_container, TRUE, 0)),
                         a.result, child)
           /\ typed' = [typed EXCEPT !.single = @ \cup {a.result}]
    /\ UNCHANGED <<root, kids, set_roots, contract, erased>>
    /\ UNCHANGED <<visit, map, forest, heap, interner, symtab, walk, rootlist, wide, painted, resource>>

TypedIdle ==
    UNCHANGED <<arena, root, kids, set_roots, contract, erased, visit, map, forest, heap,
                interner, symtab, walk, rootlist, typed, wide, painted, resource>>

\* optional_node::insert_child(child)
InsertChild(c, child) ==
    /\ c \in typed.optional
    /\ child \in LeafNodes \cap Unlinked
    /\ mem' = insert_child(mem, c, child)
    /\ TypedIdle

\* optional_node::erase_child()
EraseChild(c) ==
    /\ c \in typed.optional
    /\ first_child(mem, c) # nullptr
    /\ mem' = erase_child(mem, c)
    /\ TypedIdle

\* optional_node::replace_child(new_child)
OptionalReplaceChild(c, new_child) ==
    /\ c \in typed.optional
    /\ new_child \in LeafNodes \cap Unlinked
    /\ mem' = optional_replace_child(mem, c, new_child).m
    /\ TypedIdle

\* single_node::replace_child(new_child)
SingleReplaceChild(c, new_child) ==
    /\ c \in typed.single
    /\ new_child \in LeafNodes \cap Unlinked
    /\ mem' = single_replace_child(mem, c, new_child).m
    /\ TypedIdle

NextTyped ==
    \/ CreateLeaf
    \/ CreateOptional
    \/ \E child \in Nodes : CreateSingle(child)
    \/ \E c, child \in Nodes : InsertChild(c, child)
    \/ \E c \in Nodes : EraseChild(c)
    \/ \E c, new_child \in Nodes : OptionalReplaceChild(c, new_child)
    \/ \E c, new_child \in Nodes : SingleReplaceChild(c, new_child)

\* A tree of leaf nodes, optional_nodes and single_nodes.
SpecTyped == InitTyped /\ [][NextTyped]_vars

\* C30: an optional_node has zero or one child in every state reached by
\* insert_child, erase_child and replace_child calls whose stated
\* preconditions hold, a single_node has exactly one child after its
\* construction and after every replace_child, and has_child() is true
\* exactly when child() is not null.
C30_ChildCounts ==
    /\ \A c \in typed.optional :
          /\ Len(children(mem, c)) <= 1
          /\ has_child(mem, c) <=> optional_child(mem, c) # nullptr
    /\ \A c \in typed.single :
          /\ Len(children(mem, c)) = 1
          /\ single_child(mem, c) = children(mem, c)[1]

\* ------------------------------------------------------ array_node (C31)

\* N of array_node<AbstractBase, N, ChildT>
ArraySize == 2

MaxArrayNodes == 5

\* array_node::_children_range::operator[] with 0 <= idx < N, on the cached
\* array _children
array_children_at(arr, idx) == arr[idx + 1]

\* the second loop of array_node::array_node: insert_child_after(iter[0], iter[1])
RECURSIVE array_node_link(_, _, _, _)
array_node_link(m, this, cs, i) ==
    IF i >= Len(cs) THEN m
    ELSE array_node_link(insert_child_after(m, this, cs[i], cs[i + 1]), this, cs, i + 1)

\* array_node::array_node on the node constructed at address this: [m, children]
array_node_ctor(m, this, cs) ==
    [m |-> array_node_link(insert_child_after(m, this, nullptr, cs[1]), this, cs, 1),
     children |-> cs]

\* replace_child that leaves the cached array as it was
array_replace_child_stale(m, arr, this, idx, new_child) ==
    LET pos == IF idx = 0 THEN nullptr ELSE arr[idx]
    IN  [m |-> insert_child_after(erase_child_after(m, this, pos), this, pos, new_child),
         children |-> arr,
         ret |-> child_after(m, this, pos)]

\* array_node::replace_child(idx, new_child): [m, children, ret]
array_replace_child(m, arr, this, idx, new_child) ==
    LET written == [arr EXCEPT ![idx + 1] = new_child]
        pos == IF idx = 0 THEN nullptr ELSE written[idx]
    IN  [m |-> insert_child_after(erase_child_after(m, this, pos), this, pos, new_child),
         children |-> written,
         ret |-> child_after(m, this, pos)]

\* the lists of N different unlinked leaf nodes
ArrayChildLists ==
    {cs \in [1..ArraySize -> LeafNodes \cap Unlinked] :
        \A i, j \in 1..ArraySize : i # j => cs[i] # cs[j]}

\* tree::create<leaf_node>()
CreateArrayLeaf ==
    /\ Cardinality(Nodes) < MaxArrayNodes
    /\ LET a == ArenaAllocate(arena, sizeof_node, alignof_node)
       IN  /\ arena' = a.arena
           /\ mem' = Put(mem, a.result, NewNode(kind_leaf, FALSE, 0))
    /\ UNCHANGED <<root, kids, set_roots, contract, erased, typed, wide, painted, resource>>
    /\ UNCHANGED <<visit, map, forest, heap, interner, symtab, walk, rootlist, wide, painted, resource>>

\* tree::create<T>(children...), T an array_node
CreateArray(cs) ==
    /\ Cardinality(Nodes) < MaxArrayNodes
    /\ cs \in ArrayChildLists
    /\ LET a == ArenaAllocate(arena, sizeof_node, alignof_node)
           made == array_node_ctor(Put(mem, a.result, NewNode(kind_container, TRUE, 0)),
                                   a.result, cs)
       IN  /\ arena' = a.arena
           /\ mem' = made.m
           /\ typed' = [typed EXCEPT !.array = Put(@, a.result, made.children),
                                     !.last = <<"array_node", a.result>>]
    /\ UNCHANGED <<root, kids, set_roots, contract, erased>>
    /\ UNCHANGED <<visit, map, forest, heap, interner, symtab, walk, rootlist, wide, painted, resource>>

\* array_node::replace_child(idx, new_child); last records the call, the
\* child chain before it and the node returned
ArrayReplaceChild(c, idx, new_child) ==
    /\ c \in DOMAIN typed.array
    /\ idx \in 0..(ArraySize - 1)
    /\ new_child \in LeafNodes \cap Unlinked
    /\ LET done == array_replace_child(mem, typed.array[c], c, idx, new_child)
       IN  /\ mem' = done.m
           /\ typed' = [typed EXCEPT !.array[c] = done.children,
                                     !.last = <<"replace_child", c, idx, new_child,
                                                children(mem, c), done.ret>>]
    /\ UNCHANGED <<arena, root, kids, set_roots, contract, erased>>
    /\ UNCHANGED <<visit, map, forest, heap, interner, symtab, walk, rootlist, wide, painted, resource>>

NextArray ==
    \/ CreateArrayLeaf
    \/ \E cs \in ArrayChildLists : CreateArray(cs)
    \/ \E c, new_child \in Nodes : \E idx \in 0..(ArraySize - 1) :
          ArrayReplaceChild(c, idx, new_child)

\* A tree of leaf nodes and array_nodes of ArraySize children.
SpecArrayNode == Init /\ [][NextArray]_vars

\* the last node of the child chain carries the parent pointer to the container
ChainEndsIn(m, c) ==
    LET chain == children(m, c)
    IN  /\ chain # <<>>
        /\ next_node_is_parent(m, chain[Len(chain)])
        /\ next_node(m, chain[Len(chain)]) = c

\* C31: after its construction and after every replace_child(idx, n) with
\* idx < N, the cached array of an array_node lists the nodes of its child
\* chain in order, the chain has N nodes and ends in the parent pointer to the
\* array node, and replace_child returned the node that was at idx, unlinked.
C31_ArrayMatchesChain ==
    /\ \A c \in DOMAIN typed.array :
          /\ Len(children(mem, c)) = ArraySize
          /\ \A idx \in 0..(ArraySize - 1) :
                array_children_at(typed.array[c], idx) = children(mem, c)[idx + 1]
          /\ ChainEndsIn(mem, c)
    /\ (typed.last # <<>> /\ typed.last[1] = "replace_child") =>
          /\ typed.last[6] = typed.last[5][typed.last[3] + 1]
          /\ ~is_linked_in_tree(mem, typed.last[6])
          /\ children(mem, typed.last[2])
                = [typed.last[5] EXCEPT ![typed.last[3] + 1] = typed.last[4]]

\* The last child of an array_node was replaced.
C31_Witness ==
    /\ typed.last # <<>>
    /\ typed.last[1] = "replace_child"
    /\ typed.last[3] = ArraySize - 1
    /\ typed.array[typed.last[2]][ArraySize] = typed.last[4]

\* ------------------------------------------------------- list_node (C32)

MaxListNodes == 4

\* container_node::insert_first_child, for a container without children
insert_first_child(m, this, child) ==
    set_first_child(set_next_parent(m, child, this), this, child)

\* container_node::insert_child_front, for a container with children
insert_child_front(m, this, child) ==
    set_first_child(set_next_sibling(m, child, first_child(m, this)), this, child)

\* ++user_data32() / --user_data32(); a call of erase_after whose precondition
\* holds finds a count of at least one
increment_user_data32(m, this) == [m EXCEPT ![this].user_data32 = @ + 1]
decrement_user_data32(m, this) == [m EXCEPT ![this].user_data32 = @ - 1]

\* _list_node_children_range::empty
list_empty(m, self) == first_child(m, self) = nullptr

\* _list_node_children_range::size
list_size(m, self) == m[self].user_data32

\* _list_node_children_range::begin / end
list_begin(m, self) == first_child(m, self)
list_end(m, self) == IF ~list_empty(m, self) THEN self ELSE nullptr

\* _list_node_children_range::iterator, from cur to end; a null cur that is
\* not the end is a read of nullptr->next_node()
RECURSIVE ListNodeWalk(_, _, _, _)
ListNodeWalk(m, cur, end, fuel) ==
    IF cur = end THEN <<>>
    ELSE IF fuel = 0 \/ cur = nullptr THEN <<Diverged>>
    ELSE <<cur>> \o ListNodeWalk(m, next_node(m, cur), end, fuel - 1)

\* the nodes that iterating list_node::children() yields
list_children(m, self) == ListNodeWalk(m, list_begin(m, self), list_end(m, self), Fuel(m))

\* insert_front that leaves the count as it was
list_insert_front_uncounted(m, this, child) ==
    IF first_child(m, this) = nullptr
    THEN insert_first_child(m, this, child)
    ELSE insert_child_front(m, this, child)

\* list_node::insert_front(child)
list_insert_front(m, this, child) ==
    increment_user_data32(
        IF first_child(m, this) = nullptr
        THEN insert_first_child(m, this, child)
        ELSE insert_child_front(m, this, child), this)

\* list_node::insert_after(pos, child)
list_insert_after(m, this, pos, child) ==
    increment_user_data32(
        IF pos = nullptr
        THEN insert_first_child(m, this, child)
        ELSE insert_child_after(m, this, pos, child), this)

\* list_node::erase_after(pos)
list_erase_after(m, this, pos) ==
    erase_child_after(decrement_user_data32(m, this), this, pos)

\* list_node::erase_front()
list_erase_front(m, this) == list_erase_after(m, this, nullptr)

ListIdle ==
    UNCHANGED <<arena, root, set_roots, contract, erased, visit, map, forest, heap,
                interner, symtab, walk, rootlist, wide, painted, resource>>

\* tree::create<leaf_node>() and tree::create<T>(), T a list_node
CreateListNode(is_list) ==
    /\ Cardinality(Nodes) < MaxListNodes
    /\ LET a == ArenaAllocate(arena, sizeof_node, alignof_node)
       IN  /\ arena' = a.arena
           /\ mem' = Put(mem, a.result,
                         NewNode(IF is_list THEN kind_container ELSE kind_leaf, is_list, 0))
           /\ kids' = IF is_list THEN Put(kids, a.result, <<>>) ELSE kids
           /\ typed' = IF is_list THEN [typed EXCEPT !.list = @ \cup {a.result}] ELSE typed
    /\ UNCHANGED <<root, set_roots, contract, erased>>
    /\ UNCHANGED <<visit, map, forest, heap, interner, symtab, walk, rootlist, wide, painted, resource>>

\* list_node::insert_front(child)
ListInsertFront(c, child) ==
    /\ c \in typed.list
    /\ child \in LeafNodes \cap Unlinked
    /\ mem' = list_insert_front(mem, c, child)
    /\ kids' = [kids EXCEPT ![c] = <<child>> \o @]
    /\ typed' = [typed EXCEPT !.last = <<"insert_front", c, child>>]
    /\ ListIdle

\* list_node::insert_after(pos, child); the null iterator is a position of
\* the list without children only
ListInsertAfter(c, pos, child) ==
    /\ c \in typed.list
    /\ child \in LeafNodes \cap Unlinked
    /\ IF pos = nullptr THEN first_child(mem, c) = nullptr
       ELSE pos \in Range(list_children(mem, c))
    /\ mem' = list_insert_after(mem, c, pos, child)
    /\ kids' = [kids EXCEPT ![c] = SeqInsertAt(@, IndexOf(@, pos), child)]
    /\ typed' = [typed EXCEPT !.last = <<"insert_after", c, child>>]
    /\ ListIdle

\* list_node::erase_after(pos)
ListEraseAfter(c, pos) ==
    /\ c \in typed.list
    /\ pos \in Range(list_children(mem, c))
    /\ ~next_node_is_parent(mem, pos)
    /\ mem' = list_erase_after(mem, c, pos)
    /\ kids' = [kids EXCEPT ![c] = SeqRemoveAt(@, IndexOf(@, pos) + 1)]
    /\ typed' = [typed EXCEPT !.last = <<"erase_after", c, child_after(mem, c, pos)>>]
    /\ ListIdle

\* list_node::erase_front()
ListEraseFront(c) ==
    /\ c \in typed.list
    /\ first_child(mem, c) # nullptr
    /\ mem' = list_erase_front(mem, c)
    /\ kids' = [kids EXCEPT ![c] = Tail(@)]
    /\ typed' = [typed EXCEPT !.last = <<"erase_front", c, first_child(mem, c)>>]
    /\ ListIdle

NextList ==
    \/ \E is_list \in BOOLEAN : CreateListNode(is_list)
    \/ \E c, child \in Nodes : ListInsertFront(c, child)
    \/ \E c, child \in Nodes : \E pos \in Nodes \cup {nullptr} : ListInsertAfter(c, pos, child)
    \/ \E c, pos \in Nodes : ListEraseAfter(c, pos)
    \/ \E c \in Nodes : ListEraseFront(c)

\* A tree of leaf nodes and list_nodes.
SpecList == Init /\ [][NextList]_vars

TupleSizes == {2, 3}

\* tuple_node::child<N>(), tails the cached pointers of the children after the head
tuple_child(m, tails, this, N) ==
    IF N = 0 THEN children_begin(m, this) ELSE tails[N]

\* the fold of tuple_node::tuple_node: (insert_child_after(pos, tail), pos = tail), ...
RECURSIVE tuple_node_link(_, _, _, _, _)
tuple_node_link(m, this, pos, tails, i) ==
    IF i > Len(tails) THEN m
    ELSE tuple_node_link(insert_child_after(m, this, pos, tails[i]), this, tails[i], tails, i + 1)

\* tuple_node::tuple_node(head, tail...) on the node constructed at address this: [m, tails]
tuple_node_ctor(m, this, head, tails) ==
    [m |-> tuple_node_link(insert_child_after(m, this, nullptr, head), this,
                           children_begin(insert_child_after(m, this, nullptr, head), this),
                           tails, 1),
     tails |-> tails]

\* replace_child<N> that leaves the cached pointer as it was
tuple_replace_child_stale(m, tails, this, N, new_child) ==
    LET pos == IF N = 0 THEN nullptr ELSE tuple_child(m, tails, this, N - 1)
    IN  [m |-> insert_child_after(erase_child_after(m, this, pos), this, pos, new_child),
         tails |-> tails,
         ret |-> child_after(m, this, pos)]

\* tuple_node::replace_child<N>(new_child): [m, tails, ret]
tuple_replace_child(m, tails, this, N, new_child) ==
    IF N = 0
    THEN [m |-> insert_child_after(erase_child_after(m, this, nullptr), this, nullptr, new_child),
          tails |-> tails,
          ret |-> child_after(m, this, nullptr)]
    ELSE LET written == [tails EXCEPT ![N] = new_child]
             pos == tuple_child(m, written, this, N - 1)
         IN  [m |-> insert_child_after(erase_child_after(m, this, pos), this, pos, new_child),
              tails |-> written,
              ret |-> child_after(m, this, pos)]

\* binary_node::replace_left_child / replace_right_child
replace_left_child(m, tails, this, new_child) == tuple_replace_child(m, tails, this, 0, new_child)
replace_right_child(m, tails, this, new_child) == tuple_replace_child(m, tails, this, 1, new_child)

\* the typed accessors child<0>() .. child<size - 1>() of a tuple_node
tuple_children(m, tails, this) ==
    [N \in 1..(Len(tails) + 1) |-> tuple_child(m, tails, this, N - 1)]

\* the lists of different unlinked leaf nodes for a tuple_node
TupleChildLists ==
    UNION {{cs \in [1..size -> LeafNodes \cap Unlinked] :
               \A i, j \in 1..size : i # j => cs[i] # cs[j]} : size \in TupleSizes}

TupleIdle ==
    UNCHANGED <<root, kids, set_roots, contract, erased, visit, map, forest, heap,
                interner, symtab, walk, rootlist, wide, painted, resource>>

\* tree::create<T>(head, tail...), T a tuple_node or binary_node
CreateTuple(cs) ==
    /\ Cardinality(Nodes) < MaxArrayNodes
    /\ cs \in TupleChildLists
    /\ LET a == ArenaAllocate(arena, sizeof_node, alignof_node)
           made == tuple_node_ctor(Put(mem, a.result, NewNode(kind_container, TRUE, 0)),
                                   a.result, Head(cs), Tail(cs))
       IN  /\ arena' = a.arena
           /\ mem' = made.m
           /\ typed' = [typed EXCEPT !.tuple = Put(@, a.result, made.tails),
                                     !.last = <<"tuple_node", a.result>>]
    /\ TupleIdle

\* tree::create<T>(child), T a single_node
CreateSingleNode(child) ==
    /\ Cardinality(Nodes) < MaxArrayNodes
    /\ child \in LeafNodes \cap Unlinked
    /\ LET a == ArenaAllocate(arena, sizeof_node, alignof_node)
       IN  /\ arena' = a.arena
           /\ mem' = single_node_ctor(
                         Put(mem, a.result, NewNode(kind_container, TRUE, 0)),
                         a.result, child)
           /\ typed' = [typed EXCEPT !.single = @ \cup {a.result},
                                     !.last = <<"single_node", a.result>>]
    /\ TupleIdle

\* tuple_node::replace_child<N>(new_child), binary_node::replace_left_child
\* (N = 0) and replace_right_child (N = 1); last records the call, the chain
\* and the typed accessors before it and the node returned
TupleReplaceChild(c, N, new_child) ==
    /\ c \in DOMAIN typed.tuple
    /\ N \in 0..Len(typed.tuple[c])
    /\ new_child \in LeafNodes \cap Unlinked
    /\ LET done == IF Len(typed.tuple[c]) = 1 /\ N = 0
                   THEN replace_left_child(mem, typed.tuple[c], c, new_child)
                   ELSE IF Len(typed.tuple[c]) = 1
                   THEN replace_right_child(mem, typed.tuple[c], c, new_child)
                   ELSE tuple_replace_child(mem, typed.tuple[c], c, N, new_child)
       IN  /\ mem' = done.m
           /\ typed' = [typed EXCEPT !.tuple[c] = done.tails,
                                     !.last = <<"replace_child", c, N, new_child,
                                                children(mem, c),
                                                tuple_children(mem, typed.tuple[c], c),
                                                done.ret>>]
    /\ UNCHANGED arena
    /\ TupleIdle

\* single_node::replace_child(new_child)
ReplaceSingleChild(c, new_child) ==
    /\ c \in typed.single
    /\ new_child \in LeafNodes \cap Unlinked
    /\ LET done == single_replace_child(mem, c, new_child)
       IN  /\ mem' = done.m
           /\ typed' = [typed EXCEPT !.last = <<"replace_child", c, 0, new_child,
                                                children(mem, c),
                                                <<single_child(mem, c)>>,
                                                done.ret>>]
    /\ UNCHANGED arena
    /\ TupleIdle

NextTuple ==
    \/ CreateArrayLeaf
    \/ \E cs \in TupleChildLists : CreateTuple(cs)
    \/ \E child \in Nodes : CreateSingleNode(child)
    \/ \E c, new_child \in Nodes : \E N \in 0..2 : TupleReplaceChild(c, N, new_child)
    \/ \E c, new_child \in Nodes : ReplaceSingleChild(c, new_child)

\* A tree of leaf nodes, single_nodes, binary_nodes and tuple_nodes of three children.
SpecTuple == Init /\ [][NextTuple]_vars

\* the typed accessors of the container a replace_child call was made on
AccessorsOf(c) ==
    IF c \in typed.single THEN <<single_child(mem, c)>>
    ELSE tuple_children(mem, typed.tuple[c], c)

\* C33: replacing one child slot of a single_node, tuple_node or binary_node
\* returns the node that was in the slot, with a null link; the new node is
\* at the same position of the child chain and in the slot's accessor; the
\* children of all other slots are unchanged in the accessors and in the chain.
C33_ReplaceOneSlot ==
    (typed.last # <<>> /\ typed.last[1] = "replace_child") =>
        LET c == typed.last[2]
            slot == typed.last[3] + 1
            new_child == typed.last[4]
            chain == typed.last[5]
            accessors == typed.last[6]
            ret == typed.last[7]
        IN  /\ ret = chain[slot]
            /\ ret = accessors[slot]
            /\ mem[ret].ptr = nullptr
            /\ ~is_linked_in_tree(mem, ret)
            /\ children(mem, c) = [chain EXCEPT ![slot] = new_child]
            /\ AccessorsOf(c) = [accessors EXCEPT ![slot] = new_child]
            /\ parent(mem, new_child) = c

\* The last child of a tuple_node of three children was replaced.
C33_Witness ==
    /\ typed.last # <<>>
    /\ typed.last[1] = "replace_child"
    /\ typed.last[3] = 2
    /\ typed.last[7] \notin Range(children(mem, typed.last[2]))

\* ---------------------------------------------- hash table capacity (C34)

\* The capacities asked for: 0, 2^64 - 1, powers of two around MinTableSize
\* and at the top of the range with their neighbours, and twice the capacity, which lookup_entry asks for when should_rehash() holds.
RequestExponents == {0, 5, 6, 7, ull_bits - 2, ull_bits - 1}

WideRequests ==
    {UllZero, UllDouble(wide.cap), UllDec(UllZero)}
        \cup {UllPow(e) : e \in RequestExponents}
        \cup {UllInc(UllPow(e)) : e \in RequestExponents}
        \cup {UllDec(UllPow(e)) : e \in RequestExponents}

InitWide ==
    /\ TreeInit
    /\ visit = VisitInit
    /\ map = MapInit
    /\ forest = ForestInit
    /\ heap = HeapInit
    /\ interner = InternerInit
    /\ symtab = SymtabInit
    /\ walk = WalkInit
    /\ rootlist = RootlistInit
    /\ typed = TypedInit
    /\ painted = <<>>
    /\ resource = ResourceInit
    /\ \E asserts \in BOOLEAN : wide = [WideInit EXCEPT !.asserts = asserts]

\* node_map::rehash(new_capacity), also symbol_table::rehash and
\* hash_forest::rehash: the capacity members only. hash_table::rehash
\* requires new_capacity == to_table_capacity(new_capacity).
WideRehash(new_capacity) ==
    /\ ~wide.failed
    /\ \E rounded \in to_table_capacity_ull(new_capacity) :
          IF ~UllLess(wide.cap, rounded)
          THEN wide' = [wide EXCEPT !.request = new_capacity, !.result = rounded]
          ELSE IF wide.asserts /\ rounded \notin to_table_capacity_ull(rounded)
          THEN wide' = [wide EXCEPT !.request = new_capacity, !.result = rounded,
                                    !.failed = TRUE]
          ELSE wide' = [wide EXCEPT !.request = new_capacity, !.result = rounded,
                                    !.cap = rounded]
    /\ UNCHANGED <<arena, mem, root, kids, set_roots, contract, erased, visit, map, forest,
                   heap, interner, symtab, walk, rootlist, typed, painted, resource>>

NextWide == \E new_capacity \in WideRequests : WideRehash(new_capacity)

\* The capacity of one hash table under rehash calls.
SpecWide == InitWide /\ [][NextWide]_vars

\* v is a power of two
UllIsPow(v) == UllLength(v) > 0 /\ v = UllPow(UllLength(v) - 1)

\* v is the smallest power of two that is not below c, c not zero
SmallestPowAbove(v, c) ==
    /\ UllIsPow(v)
    /\ ~UllLess(v, c)
    /\ UllLength(v) > 1 => UllLess(UllPow(UllLength(v) - 2), c)

\* C34: the capacity of a hash table is 0 before the first rehash and
\* afterwards a power of two that is at least MinTableSize = 64;
\* to_table_capacity(c) returns MinTableSize for every c below it and
\* otherwise the smallest power of two that is not below c.
C34_CapacityPowerOfTwo ==
    /\ wide.request = <<>> => wide.cap = UllZero
    /\ wide.cap # UllZero =>
          UllIsPow(wide.cap) /\ ~UllLess(wide.cap, UllOf(MinTableSize))
    /\ wide.request # <<>> =>
          IF UllLess(wide.request, UllOf(MinTableSize))
          THEN wide.result = UllOf(MinTableSize)
          ELSE SmallestPowAbove(wide.result, wide.request)

\* -------------------------------------------- the probe loops end (C35)

\* The number of keys that a table of MinTableSize slots is filled with
\* before the calls: with the colliding keys they are as many as its slots.
MaxFill == 61

InitProbe ==
    /\ TreeInit
    /\ visit = VisitInit
    /\ forest = ForestInit
    /\ heap = HeapInit
    /\ interner = InternerInit
    /\ symtab = SymtabInit
    /\ walk = WalkInit
    /\ rootlist = RootlistInit
    /\ typed = TypedInit
    /\ wide = WideInit
    /\ painted = <<>>
    /\ resource = ResourceInit
    /\ map = Filled(MapInit, 1, MaxFill + 1)

\* A node_map that starts with MaxFill keys.
SpecProbe == InitProbe /\ [][NextMap]_vars

\* the slots of a hash_table that are not free
NotFree(t, tr) == {i \in DOMAIN t.table : ~traits_is_unoccupied(tr, t.table[i])}

\* hash_table::lookup_entry returns within capacity() probes when its
\* precondition holds
ProbeEnds(t, key, tr) ==
    t.size < t.cap =>
        probe(t, key, tr, BitAnd(traits_hash(tr, key), t.cap - 1), t.cap).idx # Diverged

\* unique_symbol_map::lookup_entry returns within capacity() probes when its
\* precondition holds
SymbolProbeEnds(m, b, str) ==
    m.size < m.cap =>
        symbol_probe(m, b, str, BitAnd(string_hash(str), m.cap - 1),
                     BitAnd(string_hash(str), m.cap - 1), m.cap).slot # Diverged

\* C35: in every state reached through insert, remove and rehash the slots
\* that are not free are fewer than capacity(), and every lookup_entry whose
\* precondition size() < capacity() holds reaches an unoccupied slot or an
\* equal entry within capacity() probes.
C35_ProbesEnd ==
    /\ map.nm.t.cap > 0 =>
          Cardinality(NotFree(map.nm.t, node_traits)) < map.nm.t.cap
    /\ \A key \in MapKeys \cup {FillKey(i) : i \in 1..MaxFill} :
          ProbeEnds(map.nm.t, key, node_traits)
    /\ symtab.st.t.cap > 0 =>
          Cardinality(NotFree(symtab.st.t, symbol_traits)) < symtab.st.t.cap
    /\ \A s \in CollidingSymbols : ProbeEnds(symtab.st.t, s, symbol_traits)
    /\ interner.map.cap > 0 =>
          Cardinality({i \in DOMAIN interner.map.table :
                          interner.map.table[i] # invalid_index}) < interner.map.cap
    /\ \A str \in Strings : SymbolProbeEnds(interner.map, interner.buffer, str)

\* A table that holds nearly as many keys as its first capacity had slots, in
\* which a key that is not stored finds its home slot taken by another key:
\* the probe has to go on.
C35_Witness ==
    /\ map.nm.t.size >= MinTableSize - 1
    /\ \E key \in CollidingKeys :
          /\ key \notin DOMAIN map.M
          /\ ~is_unoccupied(map.nm.t.table[BitAnd(node_hash(key), map.nm.t.cap - 1)])
          /\ ~lookup_entry(map.nm.t, key, node_traits).valid

\* ------------------------------------------------- colors and links (C36)

MaxColorNodes == 3

\* dryad::color: uncolored, black, grey, white
Colors == 0..3

\* the number of nodes that are colored
MaxPainted == 1

\* node::set_color(color)
SetColor(n, c) ==
    /\ n \in Nodes
    /\ Cardinality(DOMAIN painted \cup {n}) <= MaxPainted
    /\ mem' = set_color(mem, n, c)
    /\ painted' = Put(painted, n, c)
    /\ UNCHANGED <<arena, root, kids, set_roots, contract, erased, visit, map, forest, heap,
                   interner, symtab, walk, rootlist, typed, wide, resource>>

NextColor ==
    \/ Cardinality(Nodes) < MaxColorNodes /\ \E is_container \in BOOLEAN : Create(is_container)
    \/ \E c \in Containers : \E pos \in Positions(c) : \E child \in Unlinked :
          InsertChildAfter(c, pos, child)
    \/ \E c \in Containers : \E pos \in Positions(c) : EraseChildAfter(c, pos)
    \/ \E c \in Containers : \E pos \in Positions(c) : \E n \in Unlinked :
          ReplaceChildAfter(c, pos, n)
    \/ \E r \in Unlinked : SetRoot(r)
    \/ \E n \in Nodes : \E c \in Colors : SetColor(n, c)

\* A tree whose nodes are colored between the link operations.
SpecColor == Init /\ [][NextColor]_vars

\* the color a node was given by its last set_color call; uncolored before
Painted(n) == IF n \in DOMAIN painted THEN painted[n] ELSE 0

\* C36: insert_child_after, erase_child_after, replace_child_after and
\* tree::set_root leave the color of every node as it was: color() of a node
\* is the one that its last set_color call gave it.
C36_LinksKeepColor == \A n \in Nodes : color(mem, n) = Painted(n)

\* ----------------------------------- a node under its own descendant (C37)

MaxCycleNodes == 3

\* container_node::insert_child_after(pos, child) with a child that the
\* container is or descends from; the precondition !child->is_linked_in_tree()
\* holds
InsertUnderDescendant(c, pos, child) ==
    /\ Running
    /\ c \in Containers
    /\ pos \in Positions(c) \ {Diverged}
    /\ child \in Unlinked
    /\ child \in AncestorsOrSelf(mem, c)
    /\ mem' = insert_child_after(mem, c, pos, child)
    /\ kids' = [kids EXCEPT ![c] = SeqInsertAt(@, IndexOf(@, pos), child)]
    /\ UNCHANGED <<arena, root, set_roots, contract, erased>>
    /\ TreeIdle

\* container_node::replace_child_after(pos, new_child) with a new child that
\* the container is or descends from; the preconditions hold
ReplaceByAncestor(c, pos, new_child) ==
    /\ Running
    /\ c \in Containers
    /\ pos \in Positions(c) \ {Diverged}
    /\ new_child \in Unlinked
    /\ new_child \in AncestorsOrSelf(mem, c)
    /\ IF pos = nullptr THEN first_child(mem, c) # nullptr
       ELSE ~next_node_is_parent(mem, pos)
    /\ mem' = replace_child_after(mem, c, pos, new_child)
    /\ kids' = [kids EXCEPT ![c] = [@ EXCEPT ![IndexOf(@, pos) + 1] = new_child]]
    /\ UNCHANGED <<arena, root, set_roots, contract, erased>>
    /\ TreeIdle

NextCycle ==
    \/ Cardinality(Nodes) < MaxCycleNodes /\ \E is_container \in BOOLEAN : Create(is_container)
    \/ \E c \in Containers : \E pos \in Positions(c) \ {Diverged} : \E child \in Unlinked :
          InsertChildAfter(c, pos, child)
    \/ \E c \in Containers : \E pos \in Positions(c) \ {Diverged} : EraseChildAfter(c, pos)
    \/ \E c \in Containers : \E pos \in Positions(c) \ {Diverged} : \E n \in Unlinked :
          ReplaceChildAfter(c, pos, n)
    \/ \E r \in Unlinked : SetRoot(r)
    \/ \E c \in Containers : \E pos \in Positions(c) \ {Diverged} : \E child \in Unlinked :
          InsertUnderDescendant(c, pos, child)
    \/ \E c \in Containers : \E pos \in Positions(c) \ {Diverged} : \E n \in Unlinked :
          ReplaceByAncestor(c, pos, n)

\* A tree under every call whose preconditions hold.
SpecCycle == Init /\ [][NextCycle]_vars

\* taking parent() again and again from n reaches a node that is its own
\* parent or is not linked
RECURSIVE ReachesTop(_, _, _)
ReachesTop(m, n, fuel) ==
    IF fuel = 0 \/ parent(m, n) = Diverged THEN FALSE
    ELSE IF parent(m, n) \in {nullptr, n} THEN TRUE
    ELSE ReachesTop(m, parent(m, n), fuel - 1)

\* the nodes below n: its children, their children, and so on
RECURSIVE Below(_, _, _)
Below(m, n, fuel) ==
    IF fuel = 0 \/ ~m[n].is_container THEN {}
    ELSE LET cs == Range(children(m, n)) \ {Diverged}
         IN  cs \cup UNION {Below(m, x, fuel - 1) : x \in cs}

\* C37: no sequence of create, insert, erase, replace and set_root calls
\* whose preconditions hold makes a node an ancestor of itself: from every
\* node, taking parent() again and again reaches a node that is its own
\* parent or is not linked, and no node is below itself.
C37_NoSelfAncestor ==
    \A n \in Nodes :
       /\ ReachesTop(mem, n, Fuel(mem))
       /\ n \notin Below(mem, n, Cardinality(Nodes))

\* ------------------------------------- the stored roots are attached (C38)

\* the roots of the forest's table
StoredRoots ==
    {r \in {forest.roots.t.table[i] : i \in DOMAIN forest.roots.t.table} : ~is_unoccupied(r)}

\* n is attached as a root
AttachedAsRoot(m, n) == is_linked_in_tree(m, n) /\ parent(m, n) = n

\* C38: every root that build, create or lookup_or_create returned, and so
\* every entry of the forest's root table, is attached as a root:
\* is_linked_in_tree() holds and parent() is the node itself; the rehash of
\* the root table can hash every entry.
C38_RootsAttached ==
    /\ \A r \in StoredRoots : AttachedAsRoot(mem, r)
    /\ forest.result # nullptr => AttachedAsRoot(mem, forest.result)
    /\ ~forest.roots.crashed

\* ----------------------------------------------- one slot per key (C39)

\* the occupied slots of a hash_table
Occupied(t, tr) == {i \in DOMAIN t.table : ~traits_is_unoccupied(tr, t.table[i])}

\* each key is in at most one occupied slot, and size() counts the keys stored
OneSlotPerKey(t, tr) ==
    /\ \A i, j \in Occupied(t, tr) : t.table[i] = t.table[j] => i = j
    /\ t.size = Cardinality({t.table[i] : i \in Occupied(t, tr)})

\* C39: in every state of a node_map and of the hash table of a symbol_table
\* that insert, remove and rehash reach, each key occupies at most one
\* occupied slot and size() is the number of distinct keys stored, also when
\* a key is inserted again after a key that collides with it was removed.
C39_OneSlotPerKey ==
    /\ OneSlotPerKey(map.nm.t, node_traits)
    /\ OneSlotPerKey(symtab.st.t, symbol_traits)


\* ---------------------------------------------------------------- the memory resource

\* a block of a node_map: the hash_table's _table or the map's _values, with the
\* capacity it was allocated for (its size in bytes is the capacity times the
\* element size)
Block(buffer, capacity) == [buffer |-> buffer, capacity |-> capacity]

\* _resource->allocate / _resource->deallocate, by the blocks outstanding
resource_allocate(out, b) == out \cup {b}

resource_deallocate(out, b) == out \ {b}

\* hash_table::rehash, by its effect on the resource: it allocates the new table
\* and moves the entries; old_table is not deallocated
hash_table_rehash_resource(out, new_capacity) ==
    resource_allocate(out, Block("table", new_capacity))

\* node_map::rehash, by its effect on the resource: it allocates new_values, has
\* the table rehash, and assigns _values = new_values; the old array is not
\* deallocated
node_map_rehash_resource(out, nm, n) ==
    LET new_capacity == to_table_capacity(n)
    IN  IF new_capacity <= nm.t.cap THEN out
        ELSE hash_table_rehash_resource(
                 resource_allocate(out, Block("values", new_capacity)), new_capacity)

\* node_map::lookup_entry, by its effect on the resource
node_map_prepare_resource(out, nm) ==
    IF should_rehash(nm.t) THEN node_map_rehash_resource(out, nm, 2 * nm.t.cap) ELSE out

\* hash_table::free
hash_table_free(out, t) ==
    IF t.cap = 0 THEN out ELSE resource_deallocate(out, Block("table", t.cap))

\* node_map::~node_map
node_map_dtor(out, nm) ==
    hash_table_free(resource_deallocate(out, Block("values", nm.t.cap)), nm.t)

ResourceIdle ==
    UNCHANGED <<arena, mem, root, kids, set_roots, contract, erased, visit, forest, heap,
                interner, symtab, walk, rootlist, typed, wide, painted>>

\* node_map::insert on a map that owns its blocks
NodeMapInsert(k, v) ==
    /\ ~resource.destroyed
    /\ map.nm.t.size < MaxLive
    /\ map' = [map EXCEPT !.nm = node_map_insert(map.nm, k, v).nm,
                          !.ret = "none", !.expected = "none"]
    /\ resource' = [resource EXCEPT
                      !.outstanding = node_map_prepare_resource(@, map.nm)]
    /\ ResourceIdle

\* node_map::remove on a map that owns its blocks
NodeMapRemove(k) ==
    /\ ~resource.destroyed
    /\ map' = [map EXCEPT !.nm = node_map_remove(map.nm, k).nm,
                          !.ret = "none", !.expected = "none"]
    /\ resource' = [resource EXCEPT
                      !.outstanding = node_map_prepare_resource(@, map.nm)]
    /\ ResourceIdle

\* node_map::rehash on a map that owns its blocks
NodeMapRehash(n) ==
    /\ ~resource.destroyed
    /\ map' = [map EXCEPT !.nm = node_map_rehash(map.nm, n),
                          !.ret = "none", !.expected = "none"]
    /\ resource' = [resource EXCEPT
                      !.outstanding = node_map_rehash_resource(@, map.nm, n)]
    /\ ResourceIdle

\* the map goes out of scope
NodeMapDestroy ==
    /\ ~resource.destroyed
    /\ resource' = [outstanding |-> node_map_dtor(resource.outstanding, map.nm),
                    destroyed |-> TRUE]
    /\ UNCHANGED map
    /\ ResourceIdle

NextResource ==
    \/ \E k \in CollidingKeys : \E v \in MapValues : NodeMapInsert(k, v)
    \/ \E k \in CollidingKeys : NodeMapRemove(k)
    \/ \E n \in RehashRequests : NodeMapRehash(n)
    \/ NodeMapDestroy

SpecResource == Init /\ [][NextResource]_vars

\* the blocks a live map of this capacity holds
CurrentBlocks(t) ==
    IF t.cap = 0 THEN {} ELSE {Block("table", t.cap), Block("values", t.cap)}

\* C40: every block a container allocated goes back to the memory resource: a
\* live map keeps only the table and the value array of its current capacity
\* outstanding, and a destroyed map leaves nothing outstanding.
C40_BlocksHandedBack ==
    /\ ~resource.destroyed => resource.outstanding \subseteq CurrentBlocks(map.nm.t)
    /\ resource.destroyed => resource.outstanding = {}

====
